---------------------------- MODULE Spec2Model ----------------------------
(***************************************************************************)
(* Model of the Mython lexer (src/mython/lexer.h, src/mython/lexer.cpp)    *)
(* and of the Mython evaluator (src/mython/runtime.cpp,                    *)
(* src/mython/statement.h, src/mython/statement.cpp).                      *)
(*                                                                         *)
(* The input stream is a sequence of characters, each a one-character      *)
(* string.  A token is a record [type, num, str]: type is the name of the  *)
(* token_type alternative, num the payload of Number, str the payload of   *)
(* Id and String (a sequence of characters) and of Char (a one-element     *)
(* sequence).  Unvalued tokens carry num = 0 and str = <<>>.               *)
(***************************************************************************)
EXTENDS Integers, Sequences, FiniteSets, TLC

VARIABLES
    input,                  \* the characters behind std::istream& input
    begin_,                 \* Lexer::begin_, as a 1-based position in input
    indent_,                \* Lexer::indent_
    current_token_index_,   \* Lexer::current_token_index_ (0-based)
    tokens_,                \* Lexer::tokens_
    pc,                     \* "new", "ready", or how LoadTokens failed
    last,                   \* the last call made on the lexer and its outcome
    closure,                \* the Closure the top-level statements run against
    heap,                   \* the ClassInstance objects built so far
    done                    \* the last top-level statement and its outcome

vars == <<input, begin_, indent_, current_token_index_, tokens_, pc, last,
          closure, heap, done>>

evaluator == <<closure, heap, done>>

lexer == <<input, begin_, indent_, current_token_index_, tokens_>>

-----------------------------------------------------------------------------
(* Bounds of the model. *)

\* Every stream of at most MaxLen characters over Alphabet is lexed.
MaxLen == 4

\* Streams of at most MaxLenE characters are lexed under the Expect calls.
MaxLenE == 2

\* Programs of at most MaxRuns top-level statements are run.
MaxRuns == 4

-----------------------------------------------------------------------------
(* Characters. *)

SP == " "
NL == "\n"
HASH == "#"
TAB == "\t"
DQ == "\""
SQ == "'"
BSL == "\\"

\* What operator* of an istreambuf_iterator yields at the end of the stream
\* when the library turns traits::eof() into a char.  It matches no rule.
EOFCH == "EOF"

Digits == {"0", "1", "2", "3", "4", "5", "6", "7", "8", "9"}

Letters ==
    {"a", "b", "c", "d", "e", "f", "g", "h", "i", "j", "k", "l", "m",
     "n", "o", "p", "q", "r", "s", "t", "u", "v", "w", "x", "y", "z",
     "A", "B", "C", "D", "E", "F", "G", "H", "I", "J", "K", "L", "M",
     "N", "O", "P", "Q", "R", "S", "T", "U", "V", "W", "X", "Y", "Z"}

IsDigit(c) == c \in Digits

IsQuote(c) == c = SQ \/ c = DQ

IsCompareStart(c) == c \in {"=", "!", "<", ">"}

IsPunct(c) == c \in {".", ",", ":", "(", ")", "+", "-", "*", "/"}

IsWordStart(c) == c \in Letters \/ c = "_"

\* The characters the loop of an identifier consumes.
WordChars == Digits \cup Letters \cup {"_"}

DigitValue(c) ==
    CASE c = "0" -> 0 [] c = "1" -> 1 [] c = "2" -> 2 [] c = "3" -> 3
      [] c = "4" -> 4 [] c = "5" -> 5 [] c = "6" -> 6 [] c = "7" -> 7
      [] c = "8" -> 8 [] c = "9" -> 9

-----------------------------------------------------------------------------
(* Tokens. *)

Unvalued(t) == [type |-> t, num |-> 0, str |-> <<>>]

Number(v) == [type |-> "Number", num |-> v, str |-> <<>>]

Id(word) == [type |-> "Id", num |-> 0, str |-> word]

Char(c) == [type |-> "Char", num |-> 0, str |-> <<c>>]

String(word) == [type |-> "String", num |-> 0, str |-> word]

Newline == Unvalued("Newline")

Indent == Unvalued("Indent")

Dedent == Unvalued("Dedent")

Eof == Unvalued("Eof")

\* No token: the value of `last.ret` and `last.want` when a call has none.
NoToken == Unvalued("-")

ValuedTypes == {"Number", "Id", "Char", "String"}

\* bool operator==(const Token&, const Token&)
TokenEq(lhs, rhs) ==
    IF lhs.type # rhs.type THEN FALSE
    ELSE IF lhs.type = "Char" THEN lhs.str = rhs.str
    ELSE IF lhs.type = "Number" THEN lhs.num = rhs.num
    ELSE IF lhs.type = "String" THEN lhs.str = rhs.str
    ELSE IF lhs.type = "Id" THEN lhs.str = rhs.str
    ELSE TRUE

Back(toks) == toks[Len(toks)]

End(s) == Len(s) + 1


-----------------------------------------------------------------------------
(* The helpers of LoadTokens. *)

\* The first position from i on whose character is not in S, or End(s).
RECURSIVE Skip(_, _, _)
Skip(s, i, S) ==
    IF i < End(s) /\ s[i] \in S THEN Skip(s, i + 1, S) ELSE i

\* do { ++it; } while (it != end && *it != '\n'), entered with it = i - 1.
RECURSIVE FindNewline(_, _)
FindNewline(s, i) ==
    IF i < End(s) /\ s[i] # NL THEN FindNewline(s, i + 1) ELSE i

RECURSIVE Repeat(_, _)
Repeat(t, n) == IF n = 0 THEN <<>> ELSE <<t>> \o Repeat(t, n - 1)

\* The largest value of token_type::Number::value (int).
IntMax == 2147483647

\* std::stoi on a run of digits: its value, or -1 when std::stoi throws
\* std::out_of_range because the value does not fit an int.
RECURSIVE StoIFrom(_, _, _)
StoIFrom(word, i, acc) ==
    IF i > Len(word) THEN acc
    ELSE LET d == DigitValue(word[i])
         IN IF acc > (IntMax - d) \div 10 THEN -1
            ELSE StoIFrom(word, i + 1, acc * 10 + d)

StoI(word) == StoIFrom(word, 1, 0)

\* The switch on the character after a backslash inside a string.
EscapeChar(c) ==
    CASE c = "n" -> <<NL>>
      [] c = "t" -> <<TAB>>
      [] c = "r" -> <<"\r">>
      [] c = DQ -> <<DQ>>
      [] c = BSL -> <<BSL>>
      [] c = SQ -> <<SQ>>
      [] OTHER -> <<>>

\* while (it != end && *it != c) { ... }: where the scan stops and the word.
RECURSIVE ScanString(_, _, _, _)
ScanString(s, it, q, word) ==
    IF it = End(s) \/ s[it] = q THEN [it |-> it, word |-> word]
    ELSE IF s[it] = BSL
         THEN IF it + 1 = End(s) THEN [it |-> it + 1, word |-> word]
              ELSE ScanString(s, it + 2, q, word \o EscapeChar(s[it + 1]))
         ELSE ScanString(s, it + 1, q, Append(word, s[it]))

CompareToken(c) ==
    CASE c = "=" -> Unvalued("Eq")
      [] c = "!" -> Unvalued("NotEq")
      [] c = "<" -> Unvalued("LessOrEq")
      [] c = ">" -> Unvalued("GreaterOrEq")

Keywords ==
    { <<"class", <<"c", "l", "a", "s", "s">>, "Class">>,
      <<"return", <<"r", "e", "t", "u", "r", "n">>, "Return">>,
      <<"if", <<"i", "f">>, "If">>,
      <<"else", <<"e", "l", "s", "e">>, "Else">>,
      <<"def", <<"d", "e", "f">>, "Def">>,
      <<"print", <<"p", "r", "i", "n", "t">>, "Print">>,
      <<"and", <<"a", "n", "d">>, "And">>,
      <<"or", <<"o", "r">>, "Or">>,
      <<"not", <<"n", "o", "t">>, "Not">>,
      <<"None", <<"N", "o", "n", "e">>, "None">>,
      <<"True", <<"T", "r", "u", "e">>, "True">>,
      <<"False", <<"F", "a", "l", "s", "e">>, "False">> }

\* Lexer::AssignWordToken: the buffer after the word's token is pushed.
AssignWordToken(toks, word) ==
    IF \E k \in Keywords : k[2] = word
    THEN Append(toks, Unvalued((CHOOSE k \in Keywords : k[2] = word)[3]))
    ELSE Append(toks, Id(word))

\* AssignIndentTokens with `if` in place of each `while`: indent_ is set to
\* the new level and one token is pushed, whatever the gap.
AssignIndentTokens_OneToken(toks, ind, spaces) ==
    LET indent == spaces \div 2
    IN IF indent = ind
       THEN [changed |-> FALSE, tokens |-> toks, indent |-> ind]
       ELSE [changed |-> TRUE,
             tokens |-> Append(toks, IF indent > ind THEN Indent ELSE Dedent),
             indent |-> indent]

\* Lexer::AssignIndentTokens(spaces): its return value, and tokens_ and
\* indent_ after it.
AssignIndentTokens(toks, ind, spaces) ==
    LET indent == spaces \div 2
    IN IF indent = ind
       THEN [changed |-> FALSE, tokens |-> toks, indent |-> ind]
       ELSE IF indent > ind
       THEN [changed |-> TRUE,
             tokens |-> toks \o Repeat(Indent, indent - ind),
             indent |-> indent]
       ELSE [changed |-> TRUE,
             tokens |-> toks \o Repeat(Dedent, ind - indent),
             indent |-> indent]

\* AssignEofToken without its closing Newline.
AssignEofToken_NoNewline(toks, ind) ==
    [tokens |-> toks \o Repeat(Dedent, ind) \o <<Eof>>, indent |-> 0]

\* AssignEofToken with the closing Newline pushed after any token.
AssignEofToken_AlwaysNewline(toks, ind) ==
    [tokens |-> (IF toks # <<>> THEN Append(toks, Newline) ELSE toks)
                    \o Repeat(Dedent, ind) \o <<Eof>>,
     indent |-> 0]

\* Lexer::AssignEofToken: tokens_ and indent_ after it.
AssignEofToken(toks, ind) ==
    [tokens |-> (IF toks # <<>> /\ Back(toks).type # "Newline"
                 THEN Append(toks, Newline) ELSE toks)
                    \o Repeat(Dedent, ind) \o <<Eof>>,
     indent |-> 0]

\* The line-start test without the look at tokens_.back().
AtLineStart_Always(toks) == TRUE

\* The test that the read position is at the start of a logical line.
AtLineStart(toks) == toks = <<>> \/ Back(toks).type = "Newline"

\* The test that a line with `spaces` leading spaces gets indentation tokens.
EmitsIndent(c, atEnd) == (c # NL /\ c # HASH) \/ atEnd

\* How a call of LoadTokens ends: by its break, with begin_, tokens_ and
\* indent_ as given ...
Loaded(it, toks, ind) ==
    [out |-> "ok", begin |-> it, tokens |-> toks, indent |-> ind]

\* ... or not by its break: the loop of line 113 spins on a character that
\* no rule consumes ("hung"), the loop of line 122 spins on the value read
\* at the end of the stream ("hung_at_end"), or std::stoi throws
\* ("out_of_range"); the members are as they were at the call.
NotLoaded(how, it, toks, ind) ==
    [out |-> how, begin |-> it, tokens |-> toks, indent |-> ind]

\* What *it yields when it == end.  The read is undefined; a build yields
\* either the char made of traits::eof() or the character read before it,
\* which at line 122 is a space.
DerefEnd == {EOFCH, SP}

\* Lexer::LoadTokens, entered with it = it0, tokens_ = toks, indent_ = ind;
\* e is what *it yields at the end of the stream.
RECURSIVE LoadTokens(_, _, _, _, _)
LoadTokens(s, it0, toks, ind, e) ==
    IF it0 = End(s)
    THEN LET r == AssignEofToken(toks, ind)
         IN Loaded(it0, r.tokens, r.indent)
    ELSE
    LET it == Skip(s, it0, {SP})
        spaces == it - it0
        atEnd == it = End(s)
        c == IF atEnd THEN e ELSE s[it]
        ai == AssignIndentTokens(toks, ind, spaces)
    IN
    IF atEnd /\ e = SP
    THEN NotLoaded("hung_at_end", it0, toks, ind)
    ELSE IF AtLineStart(toks) /\ EmitsIndent(c, atEnd) /\ ai.changed
    THEN Loaded(it, ai.tokens, ai.indent)
    ELSE IF IsDigit(c)
    THEN LET k == Skip(s, it + 1, Digits)
             v == StoI(SubSeq(s, it, k - 1))
         IN IF v < 0
            THEN NotLoaded("out_of_range", it0, toks, ind)
            ELSE Loaded(k, Append(toks, Number(v)), ind)
    ELSE IF IsQuote(c)
    THEN LET r == ScanString(s, it + 1, c, <<>>)
             eof == AssignEofToken(toks, ind)
         IN IF it + 1 = End(s) \/ r.it = End(s)
            THEN Loaded(End(s), eof.tokens, eof.indent)
            ELSE Loaded(r.it + 1, Append(toks, String(r.word)), ind)
    ELSE IF IsCompareStart(c)
    THEN IF it + 1 = End(s)
         THEN LET eof == AssignEofToken(Append(toks, Char(c)), ind)
              IN Loaded(End(s), eof.tokens, eof.indent)
         ELSE IF s[it + 1] = "="
         THEN Loaded(it + 2, Append(toks, CompareToken(c)), ind)
         ELSE Loaded(it + 1, Append(toks, Char(c)), ind)
    ELSE IF IsPunct(c)
    THEN Loaded(it + 1, Append(toks, Char(c)), ind)
    ELSE IF IsWordStart(c)
    THEN LET k == Skip(s, it, WordChars)
         IN Loaded(k, AssignWordToken(toks, SubSeq(s, it, k - 1)), ind)
    ELSE IF c = HASH
    THEN LoadTokens(s, FindNewline(s, it + 1), toks, ind, e)
    ELSE IF c = NL
    THEN IF toks # <<>> /\ Back(toks).type # "Newline"
         THEN Loaded(it, Append(toks, Newline), ind)
         ELSE LoadTokens(s, it + 1, toks, ind, e)
    ELSE IF atEnd
    THEN LoadTokens(s, it, toks, ind, e)
    ELSE NotLoaded("hung", it0, toks, ind)

-----------------------------------------------------------------------------
(* The public members of Lexer. *)

\* The index test with >= + 2 in place of > + 1.
Advance_OffByOne(size, idx) == IF size > idx + 2 THEN idx + 1 ELSE idx

\* The index moved to the last token of the buffer.
Advance_ToBack(size, idx) == IF size > idx + 1 THEN size - 1 ELSE idx

\* if (tokens_.size() > current_token_index_ + 1) ++current_token_index_;
Advance(size, idx) == IF size > idx + 1 THEN idx + 1 ELSE idx

\* The test of NextToken holding whatever the last token is.
NeedsLoad_Always(toks) == toks = toks

\* if (tokens_.back() != token_type::Eof()) LoadTokens();
NeedsLoad(toks) == ~TokenEq(Back(toks), Eof)

\* Lexer::NextToken: how it ends, and the members after it.
NextTokenRun(s, b, toks, ind, idx, e) ==
    LET r == IF NeedsLoad(toks) THEN LoadTokens(s, b, toks, ind, e)
             ELSE Loaded(b, toks, ind)
    IN [out |-> r.out, begin |-> r.begin, tokens |-> r.tokens,
        indent |-> r.indent,
        index |-> IF r.out = "ok" THEN Advance(Len(r.tokens), idx) ELSE idx]

\* tokens_[current_token_index_]
TokenAt(toks, idx) == toks[idx + 1]

\* The test of Expect<T>() and ExpectNext<T>().
IsType(tok, T) == tok.type = T

\* The test of Expect<T>(value) without the comparison of the payload.
IsTypeWithValue_TypeOnly(tok, want) == tok.type = want.type

\* The test of Expect<T>(value) and ExpectNext<T>(value); want is the token
\* of type T with payload value.
IsTypeWithValue(tok, want) ==
    IF IsType(tok, want.type)
    THEN IF want.type = "Number" THEN tok.num = want.num
         ELSE tok.str = want.str
    ELSE FALSE

Outcome(ok) == IF ok THEN "ok" ELSE "LexerError"

Call(op, result, want, ret) ==
    [op |-> op, result |-> result, want |-> want, ret |-> ret]

\* Lexer::Lexer(std::istream&)
Lexer ==
    /\ pc = "new"
    /\ \E e \in DerefEnd :
         LET r == LoadTokens(input, begin_, tokens_, indent_, e)
         IN /\ pc' = IF r.out = "ok" THEN "ready" ELSE r.out
            /\ begin_' = r.begin
            /\ tokens_' = r.tokens
            /\ indent_' = r.indent
            /\ last' = Call("Lexer", r.out, NoToken, NoToken)
    /\ UNCHANGED <<input, current_token_index_, evaluator>>

\* const Token& Lexer::CurrentToken() const
CurrentToken ==
    /\ pc = "ready"
    /\ last' = Call("CurrentToken", "ok", NoToken,
                    TokenAt(tokens_, current_token_index_))
    /\ UNCHANGED <<lexer, pc, evaluator>>

\* The members and pc after a run r of NextToken.
Ran(r) ==
    /\ pc' = IF r.out = "ok" THEN "ready" ELSE r.out
    /\ begin_' = r.begin
    /\ tokens_' = r.tokens
    /\ indent_' = r.indent
    /\ current_token_index_' = r.index
    /\ UNCHANGED <<input, evaluator>>

\* Token Lexer::NextToken()
NextToken ==
    /\ pc = "ready"
    /\ \E e \in DerefEnd :
         LET r == NextTokenRun(input, begin_, tokens_, indent_,
                               current_token_index_, e)
         IN /\ Ran(r)
            /\ last' = Call("NextToken", r.out, NoToken,
                            IF r.out = "ok" THEN TokenAt(r.tokens, r.index)
                            ELSE NoToken)

\* The types T the model passes to Expect<T>() and ExpectNext<T>().
ExpectTypes ==
    {"Number", "Id", "Char", "String", "Newline", "Indent", "Dedent",
     "Eof", "Eq"}

\* The pairs of T and value the model passes to Expect<T>(value) and
\* ExpectNext<T>(value).
ExpectValues ==
    {Number(1), Number(11), Id(<<"a">>), Char("="), String(<<>>),
     String(<<"a">>)}

\* template <typename T> const T& Expect() const
Expect(T) ==
    /\ pc = "ready"
    /\ LET tok == TokenAt(tokens_, current_token_index_)
           ok == IsType(tok, T)
       IN last' = Call("Expect", Outcome(ok), Unvalued(T),
                       IF ok THEN tok ELSE NoToken)
    /\ UNCHANGED <<lexer, pc, evaluator>>

\* template <typename T, typename U> void Expect(const U& value) const
ExpectValue(want) ==
    /\ pc = "ready"
    /\ LET tok == TokenAt(tokens_, current_token_index_)
       IN last' = Call("ExpectValue", Outcome(IsTypeWithValue(tok, want)),
                       want, NoToken)
    /\ UNCHANGED <<lexer, pc, evaluator>>

\* template <typename T> const T& ExpectNext()
ExpectNext(T) ==
    /\ pc = "ready"
    /\ \E e \in DerefEnd :
         LET r == NextTokenRun(input, begin_, tokens_, indent_,
                               current_token_index_, e)
             tok == TokenAt(r.tokens, r.index)
         IN /\ Ran(r)
            /\ last' = IF r.out # "ok"
                       THEN Call("ExpectNext", r.out, Unvalued(T), NoToken)
                       ELSE Call("ExpectNext", Outcome(IsType(tok, T)),
                                 Unvalued(T),
                                 IF IsType(tok, T) THEN tok ELSE NoToken)

\* template <typename T, typename U> void ExpectNext(const U& value)
ExpectNextValue(want) ==
    /\ pc = "ready"
    /\ \E e \in DerefEnd :
         LET r == NextTokenRun(input, begin_, tokens_, indent_,
                               current_token_index_, e)
             tok == TokenAt(r.tokens, r.index)
         IN /\ Ran(r)
            /\ last' = IF r.out # "ok"
                       THEN Call("ExpectNextValue", r.out, want, NoToken)
                       ELSE Call("ExpectNextValue",
                                 Outcome(IsTypeWithValue(tok, want)),
                                 want, NoToken)

-----------------------------------------------------------------------------
(* Runtime values (src/mython/runtime.cpp).                                *)
(*                                                                         *)
(* An ObjectHolder is a record [kind, num, str, name, addr, own].  kind    *)
(* names the dynamic type of the object behind data_ ("None" when data_    *)
(* is null).  A Number, String or Bool never changes after construction    *)
(* and no raw pointer to one outlives the holder it was taken from, so     *)
(* the holder carries the value itself: num for Number and Bool (1 is      *)
(* true), str for String (a sequence of character codes).  A Class is      *)
(* carried by its name.  A ClassInstance is carried by its address addr    *)
(* in the heap; own tells an owning shared_ptr (one that counts) from the  *)
(* one ObjectHolder::Share builds, whose deleter does nothing.             *)
(*                                                                         *)
(* A heap object is a record [live, cls_, closure_, owners]: live is       *)
(* false once the object is destroyed, owners counts the owning holders.   *)
(***************************************************************************)

Holder(kind, num, str, name, addr, own) ==
    [kind |-> kind, num |-> num, str |-> str, name |-> name,
     addr |-> addr, own |-> own]

\* ObjectHolder::None()
None == Holder("None", 0, <<>>, "", 0, FALSE)

NumberHolder(v) == Holder("Number", v, <<>>, "", 0, FALSE)

StringHolder(s) == Holder("String", 0, s, "", 0, FALSE)

BoolHolder(b) == Holder("Bool", IF b THEN 1 ELSE 0, <<>>, "", 0, FALSE)

ClassHolder(name) == Holder("Class", 0, <<>>, name, 0, FALSE)

\* A holder that shares the ownership of the ClassInstance at addr.
Owning(addr) == Holder("ClassInstance", 0, <<>>, "", addr, TRUE)

\* ObjectHolder::Share(Object& object), for a ClassInstance
Share(addr) == Holder("ClassInstance", 0, <<>>, "", addr, FALSE)

\* ObjectHolder::operator bool()
NonEmpty(h) == h.kind # "None"

\* Object* ObjectHolder::Get() yields a pointer to a destroyed object.
Dangling(h, hp) == h.kind = "ClassInstance" /\ ~hp[h.addr].live

Object(live, cls, fields, owners) ==
    [live |-> live, cls_ |-> cls, closure_ |-> fields, owners |-> owners]

\* ClassInstance::ClassInstance(const Class& cls), this being the address
\* of the object under construction
ClassInstance(this, cls) == Object(TRUE, cls, "self" :> Share(this), 0)

\* ObjectHolder::Own(T&& object): the object a new shared_ptr owns, built
\* from object by the constructor the compiler generates for ClassInstance,
\* which takes over closure_ as it is.
Own(object) == Object(TRUE, object.cls_, object.closure_, 1)

\* A temporary ClassInstance at the end of its full-expression, after
\* ObjectHolder::Own has moved its closure_ away.
Destroyed(object) == Object(FALSE, object.cls_, <<>>, 0)

\* A copy of the holder h is made: its shared_ptr counts one more owner.
Retain(h, hp) ==
    IF h.kind = "ClassInstance" /\ h.own /\ hp[h.addr].live
    THEN [hp EXCEPT ![h.addr].owners = @ + 1]
    ELSE hp

RECURSIVE Release(_, _)
RECURSIVE ReleaseAll(_, _)

\* The holder h is destroyed or overwritten: its shared_ptr counts one
\* owner less, and the last owner destroys the object and with it the
\* holders of its closure_.
Release(h, hp) ==
    IF ~(h.kind = "ClassInstance" /\ h.own /\ hp[h.addr].live) THEN hp
    ELSE IF hp[h.addr].owners > 1
         THEN [hp EXCEPT ![h.addr].owners = @ - 1]
         ELSE ReleaseAll(hp[h.addr].closure_,
                         [hp EXCEPT ![h.addr] =
                              Object(FALSE, @.cls_, <<>>, 0)])

\* The Closure m is destroyed.
ReleaseAll(m, hp) ==
    IF DOMAIN m = {} THEN hp
    ELSE LET k == CHOOSE k \in DOMAIN m : TRUE
         IN ReleaseAll([x \in DOMAIN m \ {k} |-> m[x]], Release(m[k], hp))

\* IsTrue without the test for a ClassInstance.
IsTrue_OfInstance(object) ==
    IF \/ ~NonEmpty(object)
       \/ object.kind = "Class"
    THEN FALSE
    ELSE IF object.kind = "Bool" THEN object.num = 1
    ELSE IF object.kind = "Number" THEN object.num # 0
    ELSE IF object.kind = "String" THEN object.str # <<>>
    ELSE TRUE

\* bool IsTrue(const ObjectHolder& object)
IsTrue(object) ==
    IF \/ ~NonEmpty(object)
       \/ object.kind = "Class"
       \/ object.kind = "ClassInstance"
    THEN FALSE
    ELSE IF object.kind = "Bool" THEN object.num = 1
    ELSE IF object.kind = "Number" THEN object.num # 0
    ELSE IF object.kind = "String" THEN object.str # <<>>
    ELSE TRUE

-----------------------------------------------------------------------------
(* The nodes of the syntax tree (src/mython/statement.h): a record whose   *)
(* field node names the class of the node and whose other fields are the   *)
(* members of that class.                                                  *)
(***************************************************************************)

\* ValueStatement<runtime::Number>
NumericConst(v) == [node |-> "NumericConst", value_ |-> NumberHolder(v)]

\* ValueStatement<runtime::String>
StringConst(s) == [node |-> "StringConst", value_ |-> StringHolder(s)]

\* ValueStatement<runtime::Bool>
BoolConst(b) == [node |-> "BoolConst", value_ |-> BoolHolder(b)]

NoneConst == [node |-> "None"]

VariableValue(dotted_ids) ==
    [node |-> "VariableValue", var_names_ |-> dotted_ids]

Assignment(var, rv) == [node |-> "Assignment", var_ |-> var, rv_ |-> rv]

FieldAssignment(object, field_name, rv) ==
    [node |-> "FieldAssignment", object_ |-> object,
     field_name_ |-> field_name, rv_ |-> rv]

MethodCall(object, method, args) ==
    [node |-> "MethodCall", object_ |-> object, method_ |-> method,
     args_ |-> args]

NewInstance(class, args) ==
    [node |-> "NewInstance", class_ref_ |-> class, args_ |-> args]

Or(lhs, rhs) == [node |-> "Or", lhs_ |-> lhs, rhs_ |-> rhs]

And(lhs, rhs) == [node |-> "And", lhs_ |-> lhs, rhs_ |-> rhs]

Not(argument) == [node |-> "Not", argument_ |-> argument]

Compound(statements) == [node |-> "Compound", statements_ |-> statements]

MethodBody(body) == [node |-> "MethodBody", body_ |-> body]

Return(statement) == [node |-> "Return", statement_ |-> statement]

ClassDefinition(cls) == [node |-> "ClassDefinition", cls_ |-> cls]

\* else_body is NoElse when the else_body of the source is nullptr.
IfElse(condition, if_body, else_body) ==
    [node |-> "IfElse", condition_ |-> condition, if_body_ |-> if_body,
     else_body_ |-> else_body]

NoElse == [node |-> "nullptr"]

Comparison(cmp, lhs, rhs) ==
    [node |-> "Comparison", cmp_ |-> cmp, lhs_ |-> lhs, rhs_ |-> rhs]

\* Add, Sub, Mult and Div: node names the class derived from
\* BinaryOperation.
BinaryOperation(node, lhs, rhs) == [node |-> node, lhs_ |-> lhs, rhs_ |-> rhs]

-----------------------------------------------------------------------------
(* Classes (src/mython/runtime.cpp).  A Class is a record [name_,          *)
(* methods_, parent_ptr_]; parent_ptr_ is the name of the parent, "" for   *)
(* nullptr.  A Method is a record [name, formal_params, body].             *)
(***************************************************************************)

Method(name, formal_params, body) ==
    [name |-> name, formal_params |-> formal_params, body |-> body]

\* Class::Class(std::string name, std::vector<Method> methods,
\*              const Class* parent)
Class(name, methods, parent) ==
    [name_ |-> name, methods_ |-> methods, parent_ptr_ |-> parent]

\* x and self.x, as the parser builds them
Variable(name) == VariableValue(<<name>>)

SelfField(name) == VariableValue(<<"self", name>>)

SetSelfField(name, rv) == FieldAssignment(Variable("self"), name, rv)

\* A method whose body is MethodBody(Compound(statements)).
Def(name, formal_params, statements) ==
    Method(name, formal_params, MethodBody(Compound(statements)))

\* The classes of the programs the model runs.
\*   class A:
\*     def __init__(n): self.n = n
\*     def me(): return self
\*     def get(): return self.n
\*     def set(v): self.n = v
\*     def early():
\*       self.a = 1
\*       if self.a:
\*         return self.a
\*       self.b = 2
\*     def outer():
\*       self.x = self.early()
\*       self.y = 1
\*       return 7
\*     def bad():
\*       self.m = 1
\*       t = zz
\*       self.k = 2
\*       return 1
\*     def __eq__(o): return self.n == o.n
\*     def __lt__(o): return self.n < o.n
\*     def __add__(o): return self.n + o.n
\*   class B(A):
\*     def get(): return 5
\*     def g(): return self.me()
\*   class C:
\*     def __eq__(): return True
\*     def __lt__(a, b): return True
\*     def __add__(): return 1
\*   class D(B):
\*     def get(): return 8
\*     def get(): return 9
\*     def __init__(a, b):
\*       self.n = a
\*       return 9
\*     def set(a, b):
\*       self.n = a
\*       return b
\*     def loc():
\*       zz = 2
\*       return zz
Classes ==
    [A |-> Class("A",
         << Def("__init__", <<"n">>, <<SetSelfField("n", Variable("n"))>>),
            Def("me", <<>>, <<Return(Variable("self"))>>),
            Def("get", <<>>, <<Return(SelfField("n"))>>),
            Def("set", <<"v">>, <<SetSelfField("n", Variable("v"))>>),
            Def("early", <<>>,
                << SetSelfField("a", NumericConst(1)),
                   IfElse(SelfField("a"),
                          Compound(<<Return(SelfField("a"))>>), NoElse),
                   SetSelfField("b", NumericConst(2)) >>),
            Def("outer", <<>>,
                << SetSelfField("x", MethodCall(Variable("self"), "early",
                                                <<>>)),
                   SetSelfField("y", NumericConst(1)),
                   Return(NumericConst(7)) >>),
            Def("bad", <<>>,
                << SetSelfField("m", NumericConst(1)),
                   Assignment("t", Variable("zz")),
                   SetSelfField("k", NumericConst(2)),
                   Return(NumericConst(1)) >>),
            Def("__eq__", <<"o">>,
                <<Return(Comparison("Equal", SelfField("n"),
                                    VariableValue(<<"o", "n">>)))>>),
            Def("__lt__", <<"o">>,
                <<Return(Comparison("Less", SelfField("n"),
                                    VariableValue(<<"o", "n">>)))>>),
            Def("__add__", <<"o">>,
                <<Return(BinaryOperation("Add", SelfField("n"),
                                         VariableValue(<<"o", "n">>)))>>) >>,
         ""),
     B |-> Class("B",
         << Def("get", <<>>, <<Return(NumericConst(5))>>),
            Def("g", <<>>,
                <<Return(MethodCall(Variable("self"), "me", <<>>))>>) >>,
         "A"),
     C |-> Class("C",
         << Def("__eq__", <<>>, <<Return(BoolConst(TRUE))>>),
            Def("__lt__", <<"a", "b">>, <<Return(BoolConst(TRUE))>>),
            Def("__add__", <<>>, <<Return(NumericConst(1))>>) >>,
         ""),
     D |-> Class("D",
         << Def("get", <<>>, <<Return(NumericConst(8))>>),
            Def("get", <<>>, <<Return(NumericConst(9))>>),
            Def("__init__", <<"a", "b">>,
                << SetSelfField("n", Variable("a")),
                   Return(NumericConst(9)) >>),
            Def("set", <<"a", "b">>,
                << SetSelfField("n", Variable("a")),
                   Return(Variable("b")) >>),
            Def("loc", <<>>,
                << Assignment("zz", NumericConst(2)),
                   Return(Variable("zz")) >>) >>,
         "B")]

\* The result of Class::GetMethod when no method is found.
NoMethod == Method("", <<>>, <<>>)

\* std::find_if yielding the last method of that name.
FindMethod_Last(methods_, name) ==
    LET found == {i \in 1..Len(methods_) : methods_[i].name = name}
    IN IF found = {} THEN 0 ELSE CHOOSE i \in found : \A j \in found : i >= j

\* std::find_if(methods_.begin(), methods_.end(), ...) in Class::GetMethod:
\* the index of the first method of that name, 0 for methods_.end().
FindMethod(methods_, name) ==
    LET found == {i \in 1..Len(methods_) : methods_[i].name = name}
    IN IF found = {} THEN 0 ELSE CHOOSE i \in found : \A j \in found : i <= j

RECURSIVE GetMethod(_, _)

\* Class::GetMethod on the Class class, it being what std::find_if yields.
GetMethodOf(class, it, name) ==
    IF it # 0 THEN class.methods_[it]
    ELSE IF class.parent_ptr_ # ""
         THEN GetMethod(class.parent_ptr_, name)
         ELSE NoMethod

\* const Method* Class::GetMethod(const std::string& name) const, on the
\* class named cls
GetMethod(cls, name) ==
    GetMethodOf(Classes[cls], FindMethod(Classes[cls].methods_, name), name)

\* The condition of ClassInstance::HasMethod on what GetMethod yields.
HasArity(ptr, argument_count) ==
    ptr # NoMethod /\ Len(ptr.formal_params) = argument_count

\* HasMethod accepting a method of the parent the class overrides.
HasMethod_OfParent(cls, method, argument_count) ==
    \/ HasArity(GetMethod(cls, method), argument_count)
    \/ /\ Classes[cls].parent_ptr_ # ""
       /\ HasArity(GetMethod(Classes[cls].parent_ptr_, method),
                   argument_count)

\* bool ClassInstance::HasMethod(const std::string& method,
\*                               size_t argument_count) const
HasMethod(cls, method, argument_count) ==
    HasArity(GetMethod(cls, method), argument_count)

-----------------------------------------------------------------------------
(* The state an execution runs in: a record [heap, globals, frames, log,   *)
(* uaf, order].  heap is the sequence of the ClassInstance    *)
(* objects built so far, an address being an index into it; globals is     *)
(* the Closure of the top-level statements; frames is the stack of the     *)
(* local_closure of every running ClassInstance::Call.  A Closure& is      *)
(* passed as a number: 0 for globals, i for frames[i].                     *)
(*                                                                         *)
(* log records the execution: <<depth, node, name>> when Execute of a      *)
(* node is entered at Len(frames) = depth, <<depth, "throw", "">> when     *)
(* Return throws, <<depth, "catch", "">> when MethodBody catches and       *)
(* <<depth, "Call", method>> when ClassInstance::Call runs a method        *)
(* ("Call on a destroyed object" when its object is destroyed).            *)
(*                                                                         *)
(* uaf is what a use of a destroyed object does in this run and order is   *)
(* the order in which this build evaluates the arguments of a call.        *)
(*                                                                         *)
(* Every Execute yields a record [st, sig, ret, what]: sig is "ok" when    *)
(* it returns the holder ret, "return" when it throws the ObjectHolder     *)
(* ret, "runtime_error" when it throws std::runtime_error(what) and        *)
(* "crash" when the process is killed.  An owning ret counts as an owner.  *)
(***************************************************************************)

\* A destroyed object is read as it was left (its memory is not reused
\* yet), or the read faults.
UseAfterFree == {"stale", "crash"}

\* The order of evaluation of function arguments is unspecified.
ArgumentOrder == {"left_first", "right_first"}

Ok(st, ret) == [st |-> st, sig |-> "ok", ret |-> ret, what |-> ""]

\* throw std::runtime_error(what)
Throw(st, what) ==
    [st |-> st, sig |-> "runtime_error", ret |-> None, what |-> what]

Crash(st) == [st |-> st, sig |-> "crash", ret |-> None, what |-> ""]

\* The closure a Closure& refers to.
ClosureAt(st, c) == IF c = 0 THEN st.globals ELSE st.frames[c]

PutClosure(st, c, m) ==
    IF c = 0 THEN [st EXCEPT !.globals = m] ELSE [st EXCEPT !.frames[c] = m]

\* A holder is copied.
Copied(st, h) == [st EXCEPT !.heap = Retain(h, @)]

\* A holder is destroyed.
Dropped(st, h) == [st EXCEPT !.heap = Release(h, @)]

Logged(st, node, name) ==
    [st EXCEPT !.log = Append(@, <<Len(st.frames), node, name>>)]

\* An access through h faults in this run.
Faults(st, h) == Dangling(h, st.heap) /\ st.uaf = "crash"

\* closure[name] = h, h being moved in: the holder stored before is
\* destroyed.
Store(m, name, h) == (name :> h) @@ m

Stored(m, name) == IF name \in DOMAIN m THEN m[name] ELSE None

-----------------------------------------------------------------------------
(* Execute of every node (src/mython/statement.cpp).  n is the node,       *)
(* c the Closure& and st the state; context is not modelled: no node of    *)
(* the model writes to the output stream.                                  *)
(***************************************************************************)

RECURSIVE Execute(_, _, _)

\* ValueStatement<T>::Execute: ObjectHolder::Share(value_)
ValueStatementExecute(n, c, st) == Ok(st, n.value_)

\* None::Execute
NoneExecute(n, c, st) == Ok(st, None)

RECURSIVE FollowFields(_, _, _, _)

\* The loop of VariableValue::Execute from index i on, obj being the
\* holder read so far.  Fields()[name] is unordered_map::operator[]: a
\* name that is missing is inserted with an empty holder.
FollowFields(var_names_, i, obj, st) ==
    IF i > Len(var_names_) THEN Ok(st, obj)
    ELSE IF obj.kind = "ClassInstance"
         THEN IF Faults(st, obj) THEN Crash(st)
              ELSE LET fields == st.heap[obj.addr].closure_
                       field == Stored(fields, var_names_[i])
                       st1 == [st EXCEPT !.heap[obj.addr].closure_ =
                                   Store(fields, var_names_[i], field)]
                       st2 == Dropped(Copied(st1, field), obj)
                   IN FollowFields(var_names_, i + 1, field, st2)
         ELSE Throw(Dropped(st, obj), "No fields for object!")

\* ObjectHolder VariableValue::Execute(Closure& closure, Context&)
VariableValueExecute(n, c, st) ==
    LET cl == ClosureAt(st, c)
    IN IF n.var_names_[1] \in DOMAIN cl
       THEN FollowFields(n.var_names_, 2, cl[n.var_names_[1]],
                         Copied(st, cl[n.var_names_[1]]))
       ELSE Throw(st, "No variable!")

\* Assignment::Execute storing a copy of the ClassInstance rv_ yields in
\* place of a copy of the holder.
AssignmentExecute_CopiesInstance(n, c, st) ==
    LET r == Execute(n.rv_, c, st)
        cl == ClosureAt(r.st, c)
        instance == r.ret.kind = "ClassInstance"
        copy == IF instance THEN Owning(Len(r.st.heap) + 1) ELSE r.ret
        st1 == IF instance
               THEN [r.st EXCEPT
                        !.heap = Append(@, Own(r.st.heap[r.ret.addr]))]
               ELSE r.st
        st2 == PutClosure(Dropped(st1, r.ret), c, Store(cl, n.var_, copy))
    IN IF r.sig # "ok" THEN r
       ELSE Ok(Copied(Dropped(st2, Stored(cl, n.var_)), copy), copy)

\* ObjectHolder Assignment::Execute(Closure& closure, Context& context)
AssignmentExecute(n, c, st) ==
    LET r == Execute(n.rv_, c, st)
    IN IF r.sig # "ok" THEN r
       ELSE LET cl == ClosureAt(r.st, c)
                old == Stored(cl, n.var_)
                st1 == PutClosure(r.st, c, Store(cl, n.var_, r.ret))
                st2 == Dropped(st1, old)
            IN Ok(Copied(st2, r.ret), r.ret)

\* object_.Execute(closure, context).TryAs<runtime::ClassInstance>()
\* ->Fields(), o being the outcome of object_.Execute: calling Fields()
\* through the null pointer of a holder without a ClassInstance faults.
FieldsFault(o) == o.ret.kind # "ClassInstance" \/ Faults(o.st, o.ret)

\* ObjectHolder FieldAssignment::Execute(Closure& closure,
\*                                       Context& context)
FieldAssignmentExecute(n, c, st) ==
    LET r == Execute(n.rv_, c, st)
        o == Execute(n.object_, c, r.st)
        fields == o.st.heap[o.ret.addr].closure_
        old == Stored(fields, n.field_name_)
        st1 == [o.st EXCEPT !.heap[o.ret.addr].closure_ =
                    Store(fields, n.field_name_, r.ret)]
        st2 == Dropped(Dropped(st1, old), o.ret)
        o2 == Execute(n.object_, c, st2)
        fields2 == o2.st.heap[o2.ret.addr].closure_
        ret == Stored(fields2, n.field_name_)
        st3 == [o2.st EXCEPT !.heap[o2.ret.addr].closure_ =
                    Store(fields2, n.field_name_, ret)]
    IN IF r.sig # "ok" THEN r
       ELSE IF o.sig # "ok" THEN [o EXCEPT !.st = Dropped(@, r.ret)]
       ELSE IF FieldsFault(o) THEN Crash(o.st)
       ELSE IF o2.sig # "ok" THEN o2
       ELSE IF FieldsFault(o2) THEN Crash(o2.st)
       ELSE Ok(Dropped(Copied(st3, ret), o2.ret), ret)

\* The holders of a std::vector<ObjectHolder> are destroyed.
DroppedAll(st, args) == [st EXCEPT !.heap = ReleaseAll(args, @)]

RECURSIVE BindArgs(_, _, _, _, _)

\* The loop of ClassInstance::Call:
\* local_closure[ptr->formal_params[i]] = actual_args[i]
BindArgs(formal_params, actual_args, i, local_closure, st) ==
    IF i > Len(actual_args) THEN [local_closure |-> local_closure, st |-> st]
    ELSE BindArgs(formal_params, actual_args, i + 1,
                  Store(local_closure, formal_params[i], actual_args[i]),
                  Dropped(Copied(st, actual_args[i]),
                          Stored(local_closure, formal_params[i])))

\* The method running in a local_closure that holds the Number variables
\* of the top level as well.
Entered_InCallerScope(this, method, b) ==
    [Logged(b.st, IF b.st.heap[this].live THEN "Call"
                  ELSE "Call on a destroyed object", method)
     EXCEPT !.frames =
         Append(@, b.local_closure
                   @@ [name \in {x \in DOMAIN b.st.globals :
                                    b.st.globals[x].kind = "Number"}
                         |-> b.st.globals[name]])]

\* local_closure is complete: the method runs in it.  b is what BindArgs
\* yields.
Entered(this, method, b) ==
    [Logged(b.st, IF b.st.heap[this].live THEN "Call"
                  ELSE "Call on a destroyed object", method)
     EXCEPT !.frames = Append(@, b.local_closure)]

\* ClassInstance::Call returns or throws what the body did, r:
\* local_closure is destroyed.
Left(r) ==
    [r EXCEPT !.st = [@ EXCEPT
         !.frames = SubSeq(@, 1, Len(@) - 1),
         !.heap = ReleaseAll(r.st.frames[Len(r.st.frames)], @)]]

\* The branch of ClassInstance::Call that runs the method ptr.
CallMethod(this, ptr, actual_args, st) ==
    Left(Execute(ptr.body, Len(st.frames) + 1,
                 Entered(this, ptr.name,
                         BindArgs(ptr.formal_params, actual_args, 1,
                                  "self" :> Share(this), st))))

\* ClassInstance::Call returning an empty holder where no method matches.
ClassInstanceCall_ReturnsNone(this, method, actual_args, st) ==
    IF HasMethod(st.heap[this].cls_, method, Len(actual_args))
    THEN CallMethod(this, GetMethod(st.heap[this].cls_, method),
                    actual_args, st)
    ELSE Ok(st, None)

\* ObjectHolder ClassInstance::Call(const std::string& method,
\*     const std::vector<ObjectHolder>& actual_args, Context& context)
\* on the object at the address this
ClassInstanceCall(this, method, actual_args, st) ==
    IF HasMethod(st.heap[this].cls_, method, Len(actual_args))
    THEN CallMethod(this, GetMethod(st.heap[this].cls_, method),
                    actual_args, st)
    ELSE Throw(st, "Not implemented")

\* The outcome of evaluating arguments, without the arguments.
Raised(a) == [st |-> a.st, sig |-> a.sig, ret |-> a.ret, what |-> a.what]

RECURSIVE ExecuteArgs(_, _, _, _, _)

\* for (...) args.push_back(args_[i].get()->Execute(closure, context)),
\* from index i on: [st, sig, ret, what, args].  When an argument throws,
\* the vector args is destroyed.
ExecuteArgs(args_, i, args, c, st) ==
    IF i > Len(args_)
    THEN [st |-> st, sig |-> "ok", ret |-> None, what |-> "", args |-> args]
    ELSE LET r == Execute(args_[i], c, st)
         IN IF r.sig # "ok"
            THEN [st |-> DroppedAll(r.st, args), sig |-> r.sig,
                  ret |-> r.ret, what |-> r.what, args |-> <<>>]
            ELSE ExecuteArgs(args_, i + 1, Append(args, r.ret), c, r.st)

\* return obj_ptr->Call(method_, args, context), a being what the loop
\* over args_ yielded: args is destroyed when Call returns or throws.
CallWith(this, method, a) ==
    IF a.sig # "ok" THEN Raised(a)
    ELSE LET r == ClassInstanceCall(this, method, a.args, a.st)
         IN [r EXCEPT !.st = DroppedAll(@, a.args)]

\* MethodCall::Execute evaluating args_ before it asks HasMethod.
CallThrough_ArgsFirst(n, c, obj_ptr, st) ==
    LET a == ExecuteArgs(n.args_, 1, <<>>, c, st)
    IN IF Faults(st, obj_ptr) THEN Crash(st)
       ELSE IF HasMethod(st.heap[obj_ptr.addr].cls_, n.method_, Len(n.args_))
            THEN CallWith(obj_ptr.addr, n.method_, a)
       ELSE IF a.sig # "ok" THEN Raised(a)
       ELSE Ok(DroppedAll(a.st, a.args), None)

\* MethodCall::Execute from the `if` on, obj_ptr pointing to a
\* ClassInstance.
CallThrough(n, c, obj_ptr, st) ==
    IF Faults(st, obj_ptr) THEN Crash(st)
    ELSE IF HasMethod(st.heap[obj_ptr.addr].cls_, n.method_, Len(n.args_))
         THEN CallWith(obj_ptr.addr, n.method_,
                       ExecuteArgs(n.args_, 1, <<>>, c, st))
         ELSE Ok(st, None)

\* MethodCall::Execute once object_ has yielded o.  The holder o.ret is a
\* temporary: it is destroyed as soon as obj_ptr is initialised, before
\* obj_ptr is used.
CallOn(n, c, o) ==
    IF o.sig # "ok" THEN o
    ELSE IF o.ret.kind # "ClassInstance" THEN Ok(Dropped(o.st, o.ret), None)
    ELSE CallThrough(n, c, o.ret, Dropped(o.st, o.ret))

\* ObjectHolder MethodCall::Execute(Closure& closure, Context& context)
MethodCallExecute(n, c, st) == CallOn(n, c, Execute(n.object_, c, st))

INIT_METHOD == "__init__"

\* auto obj = runtime::ObjectHolder::Own(runtime::ClassInstance{
\* class_ref_ }): the temporary is built at the next free address and
\* destroyed when obj is initialised; the object obj owns follows it.
Allocated(class_ref_, st) ==
    [st EXCEPT !.heap =
         @ \o << Destroyed(ClassInstance(Len(st.heap) + 1, class_ref_)),
                 Own(ClassInstance(Len(st.heap) + 1, class_ref_)) >>]

\* NewInstance::Execute returning what __init__ returned when it returned
\* a value.
Initialised_ReturnsResult(ptr, args, r) ==
    IF r.sig # "ok"
    THEN [r EXCEPT !.st = Dropped(DroppedAll(@, args), Owning(ptr))]
    ELSE IF r.ret # None
         THEN Ok(DroppedAll(Dropped(r.st, Owning(ptr)), args), r.ret)
    ELSE Ok(DroppedAll(Dropped(r.st, r.ret), args), Owning(ptr))

\* ptr->Call(INIT_METHOD, args, context) has yielded r: what it returns
\* is destroyed, then args; obj is returned, or destroyed when r throws.
Initialised(ptr, args, r) ==
    IF r.sig # "ok"
    THEN [r EXCEPT !.st = Dropped(DroppedAll(@, args), Owning(ptr))]
    ELSE Ok(DroppedAll(Dropped(r.st, r.ret), args), Owning(ptr))

\* The branch of NewInstance::Execute that calls __init__, a being what
\* the loop over args_ yielded.
CallInit(ptr, a) ==
    IF a.sig # "ok" THEN Raised([a EXCEPT !.st = Dropped(@, Owning(ptr))])
    ELSE Initialised(ptr, a.args,
                     ClassInstanceCall(ptr, INIT_METHOD, a.args, a.st))

\* NewInstance::Execute once obj owns the object at the address ptr.
Construct(n, c, ptr, st) ==
    IF HasMethod(n.class_ref_, INIT_METHOD, Len(n.args_))
    THEN CallInit(ptr, ExecuteArgs(n.args_, 1, <<>>, c, st))
    ELSE Ok(st, Owning(ptr))

\* ObjectHolder NewInstance::Execute(Closure& closure, Context& context)
NewInstanceExecute(n, c, st) ==
    Construct(n, c, Len(st.heap) + 2, Allocated(n.class_ref_, st))

-----------------------------------------------------------------------------
(* The comparisons (src/mython/runtime.cpp).  Each yields a record         *)
(* [st, sig, ret, what] as Execute does; when it returns, ret is           *)
(* BoolHolder of the bool it returns.                                      *)
(***************************************************************************)

Returns(st, b) == Ok(st, BoolHolder(b))

\* The bool a comparison returned.
Value(r) == r.ret.num = 1

RECURSIVE StringLess(_, _)

\* operator< of std::string, on sequences of character codes
StringLess(a, b) ==
    IF b = <<>> THEN FALSE
    ELSE IF a = <<>> THEN TRUE
    ELSE IF a[1] # b[1] THEN a[1] < b[1]
    ELSE StringLess(Tail(a), Tail(b))

\* std::nullopt
nullopt == [has_value |-> FALSE, value |-> FALSE]

Optional(b) == [has_value |-> TRUE, value |-> b]

\* template<typename F> std::optional<bool> CompareObjects(
\*     const ObjectHolder& lhs, const ObjectHolder& rhs, F comparator),
\* comparator being "equal_to" or "less"
CompareObjects(lhs, rhs, comparator) ==
    IF lhs.kind = "Bool" /\ rhs.kind = "Bool"
    THEN Optional(IF comparator = "less" THEN lhs.num < rhs.num
                  ELSE lhs.num = rhs.num)
    ELSE IF lhs.kind = "Number" /\ rhs.kind = "Number"
    THEN Optional(IF comparator = "less" THEN lhs.num < rhs.num
                  ELSE lhs.num = rhs.num)
    ELSE IF lhs.kind = "String" /\ rhs.kind = "String"
    THEN Optional(IF comparator = "less" THEN StringLess(lhs.str, rhs.str)
                  ELSE lhs.str = rhs.str)
    ELSE nullopt

\* IsTrue(r), r being what class_instance_ptr->Call(method, { rhs },
\* context) yielded: the copy of rhs and what Call returned are destroyed.
IsTrueOf(r, rhs) ==
    IF r.sig # "ok" THEN [r EXCEPT !.st = Dropped(@, rhs)]
    ELSE IF Faults(r.st, r.ret) THEN Crash(r.st)
    ELSE Returns(Dropped(Dropped(r.st, r.ret), rhs), IsTrue(r.ret))

\* IsTrue(class_instance_ptr->Call(method, { rhs }, context)) in Equal and
\* in Less
IsTrueCall(lhs, method, rhs, st) ==
    IF Faults(st, lhs) THEN Crash(st)
    ELSE IsTrueOf(ClassInstanceCall(lhs.addr, method, <<rhs>>,
                                    Copied(st, rhs)), rhs)

\* bool Equal(const ObjectHolder& lhs, const ObjectHolder& rhs,
\*            Context& context)
Equal(lhs, rhs, st) ==
    LET result == CompareObjects(lhs, rhs, "equal_to")
    IN IF lhs.kind = "ClassInstance" THEN IsTrueCall(lhs, "__eq__", rhs, st)
       ELSE IF result.has_value THEN Returns(st, result.value)
       ELSE IF ~NonEmpty(lhs) /\ ~NonEmpty(rhs) THEN Returns(st, TRUE)
       ELSE Throw(st, "Cannot compare objects for equality")

\* Less with the rule of Equal for two empty holders: neither is less.
Less_OfEmpty(lhs, rhs, st) ==
    LET result == CompareObjects(lhs, rhs, "less")
    IN IF lhs.kind = "ClassInstance" THEN IsTrueCall(lhs, "__lt__", rhs, st)
       ELSE IF result.has_value THEN Returns(st, result.value)
       ELSE IF ~NonEmpty(lhs) /\ ~NonEmpty(rhs) THEN Returns(st, FALSE)
       ELSE Throw(st, "Cannot compare objects for less")

\* bool Less(const ObjectHolder& lhs, const ObjectHolder& rhs,
\*           Context& context)
Less(lhs, rhs, st) ==
    LET result == CompareObjects(lhs, rhs, "less")
    IN IF lhs.kind = "ClassInstance" THEN IsTrueCall(lhs, "__lt__", rhs, st)
       ELSE IF result.has_value THEN Returns(st, result.value)
       ELSE Throw(st, "Cannot compare objects for less")

\* The `!` applied to the outcome of a comparison.
Negated(r) == IF r.sig = "ok" THEN Returns(r.st, ~Value(r)) ELSE r

\* bool NotEqual(...)
NotEqual(lhs, rhs, st) == Negated(Equal(lhs, rhs, st))

\* less || Equal(lhs, rhs, context), less being what Less yielded
OrEqual(lhs, rhs, less) ==
    IF less.sig # "ok" \/ Value(less) THEN less
    ELSE Equal(lhs, rhs, less.st)

\* bool LessOrEqual(...)
LessOrEqual(lhs, rhs, st) == OrEqual(lhs, rhs, Less(lhs, rhs, st))

\* Greater as the negation of Less.
Greater_NotLess(lhs, rhs, st) == Negated(Less(lhs, rhs, st))

\* bool Greater(...)
Greater(lhs, rhs, st) == Negated(LessOrEqual(lhs, rhs, st))

\* bool GreaterOrEqual(...)
GreaterOrEqual(lhs, rhs, st) == Negated(Less(lhs, rhs, st))

\* The Comparator cmp_ of a Comparison, named by the function it holds.
Compare(cmp, lhs, rhs, st) ==
    CASE cmp = "Equal" -> Equal(lhs, rhs, st)
      [] cmp = "NotEqual" -> NotEqual(lhs, rhs, st)
      [] cmp = "Less" -> Less(lhs, rhs, st)
      [] cmp = "Greater" -> Greater(lhs, rhs, st)
      [] cmp = "LessOrEqual" -> LessOrEqual(lhs, rhs, st)
      [] cmp = "GreaterOrEqual" -> GreaterOrEqual(lhs, rhs, st)

-----------------------------------------------------------------------------
(* Execute of the operations and of the control nodes                      *)
(* (src/mython/statement.cpp).                                             *)
(***************************************************************************)

\* The least int.
IntMin == -IntMax - 1

\* operator+ of int.  A signed overflow is undefined and wraps on the
\* builds in use: the sum is reduced modulo 2^32, without leaving the
\* range of an int on the way.
Plus32(a, b) ==
    IF b > 0 /\ a > IntMax - b THEN (a - IntMax - 1) + (b - IntMax - 1)
    ELSE IF b < 0 /\ a < IntMin - b THEN (a + IntMax + 1) + (b + IntMax + 1)
    ELSE a + b

\* operator- of int, wrapping as operator+ does.
Minus32(a, b) ==
    IF b < 0 /\ a > IntMax + b THEN (a - IntMax - 1) - (b + IntMax + 1)
    ELSE IF b > 0 /\ a < IntMin + b THEN (a + IntMax + 1) - (b - IntMax - 1)
    ELSE a - b

\* The low 16 bits of the unsigned product of two 16-bit halves, and the
\* bits above them, computed from the bytes of the halves.
Low16(al, bl) ==
    ((((al \div 256) * (bl % 256) + (al % 256) * (bl \div 256)) % 256) * 256
     + (al % 256) * (bl % 256)) % 65536

High16(al, bl) ==
    (al \div 256) * (bl \div 256)
    + ((al \div 256) * (bl % 256) + (al % 256) * (bl \div 256)) \div 256
    + ((((al \div 256) * (bl % 256) + (al % 256) * (bl \div 256)) % 256) * 256
       + (al % 256) * (bl % 256)) \div 65536

\* The int of the 32 bits whose halves are hi and lo.
Signed(hi, lo) ==
    IF hi >= 32768 THEN (hi - 65536) * 65536 + lo ELSE hi * 65536 + lo

\* operator* of int, wrapping as operator+ does: the low 32 bits of the
\* product, from the 16-bit halves of a and b.
Times32(a, b) ==
    Signed(((((a \div 65536) * (b % 65536)) % 65536)
            + (((a % 65536) * (b \div 65536)) % 65536)
            + High16(a % 65536, b % 65536)) % 65536,
           Low16(a % 65536, b % 65536))

\* operator/ of int on operands whose quotient fits an int and whose
\* absolute values do: the quotient is truncated towards zero.
Truncated(a, b) ==
    LET q == (IF a < 0 THEN -a ELSE a) \div (IF b < 0 THEN -b ELSE b)
    IN IF (a < 0) = (b < 0) THEN q ELSE -q

\* operator/ of int, b not being 0.  The quotient of the least int and -1
\* does not fit an int: where the division does not trap it wraps.
Quotient(a, b) ==
    IF b = IntMin THEN (IF a = IntMin THEN 1 ELSE 0)
    ELSE IF a # IntMin THEN Truncated(a, b)
    ELSE IF b = -1 THEN IntMin
    ELSE IF b > 0 THEN Truncated(a + b, b) - 1
    ELSE Truncated(a - b, b) + 1

\* The function objects std::plus, std::minus, std::multiplies and
\* std::divides on the values of two holders of the type T.
Apply(function_object, T, lhs, rhs) ==
    IF T = "String" THEN StringHolder(lhs.str \o rhs.str)
    ELSE NumberHolder(
             CASE function_object = "plus" -> Plus32(lhs.num, rhs.num)
               [] function_object = "minus" -> Minus32(lhs.num, rhs.num)
               [] function_object = "multiplies" -> Times32(lhs.num, rhs.num)
               [] function_object = "divides" -> Quotient(lhs.num, rhs.num))

\* GetFunctionResult testing lhs_ptr only.
GetFunctionResult_LhsOnly(T, lhs, rhs, function_object) ==
    IF lhs.kind = T
    THEN [has_value |-> TRUE, value |-> Apply(function_object, T, lhs, rhs)]
    ELSE [has_value |-> FALSE, value |-> None]

\* template<typename T, typename U, typename F> std::optional<U>
\* GetFunctionResult(lhs, rhs, function_object): [has_value, value], value
\* being the holder Own builds from the result.
GetFunctionResult(T, lhs, rhs, function_object) ==
    IF rhs.kind = T /\ lhs.kind = T
    THEN [has_value |-> TRUE, value |-> Apply(function_object, T, lhs, rhs)]
    ELSE [has_value |-> FALSE, value |-> None]

ADD_METHOD == "__add__"

\* return ptr->Call(ADD_METHOD, { rhs }, context), r being what Call
\* yielded: the copy of rhs, then rhs and lhs are destroyed.
AddedBy(r, lhs, rhs) ==
    [r EXCEPT !.st = Dropped(Dropped(Dropped(@, rhs), rhs), lhs)]

\* Add::Execute once lhs_ and rhs_ have yielded lhs and rhs.
Plus(lhs, rhs, st) ==
    IF GetFunctionResult("Number", lhs, rhs, "plus").has_value
    THEN Ok(st, GetFunctionResult("Number", lhs, rhs, "plus").value)
    ELSE IF GetFunctionResult("String", lhs, rhs, "plus").has_value
    THEN Ok(st, GetFunctionResult("String", lhs, rhs, "plus").value)
    ELSE IF lhs.kind = "ClassInstance" /\ Faults(st, lhs) THEN Crash(st)
    ELSE IF /\ lhs.kind = "ClassInstance"
            /\ HasMethod(st.heap[lhs.addr].cls_, ADD_METHOD, 1)
    THEN AddedBy(ClassInstanceCall(lhs.addr, ADD_METHOD, <<rhs>>,
                                   Copied(st, rhs)), lhs, rhs)
    ELSE Throw(Dropped(Dropped(st, rhs), lhs),
               "Arguments are not executable!")

\* ObjectHolder Add::Execute(Closure& closure, Context& context)
AddExecute(n, c, st) ==
    LET lhs == Execute(n.lhs_, c, st)
        rhs == Execute(n.rhs_, c, lhs.st)
    IN IF lhs.sig # "ok" THEN lhs
       ELSE IF rhs.sig # "ok" THEN [rhs EXCEPT !.st = Dropped(@, lhs.ret)]
       ELSE Plus(lhs.ret, rhs.ret, rhs.st)

\* Sub::Execute and Mult::Execute once lhs_ and rhs_ have yielded lhs and
\* rhs, function_object being "minus" or "multiplies".
NumberOf(function_object, lhs, rhs, st) ==
    IF GetFunctionResult("Number", lhs, rhs, function_object).has_value
    THEN Ok(st, GetFunctionResult("Number", lhs, rhs, function_object).value)
    ELSE Throw(Dropped(Dropped(st, rhs), lhs),
               "Arguments are not executable!")

\* ObjectHolder Sub::Execute(Closure& closure, Context& context)
SubExecute(n, c, st) ==
    LET lhs == Execute(n.lhs_, c, st)
        rhs == Execute(n.rhs_, c, lhs.st)
    IN IF lhs.sig # "ok" THEN lhs
       ELSE IF rhs.sig # "ok" THEN [rhs EXCEPT !.st = Dropped(@, lhs.ret)]
       ELSE NumberOf("minus", lhs.ret, rhs.ret, rhs.st)

\* ObjectHolder Mult::Execute(Closure& closure, Context& context)
MultExecute(n, c, st) ==
    LET lhs == Execute(n.lhs_, c, st)
        rhs == Execute(n.rhs_, c, lhs.st)
    IN IF lhs.sig # "ok" THEN lhs
       ELSE IF rhs.sig # "ok" THEN [rhs EXCEPT !.st = Dropped(@, lhs.ret)]
       ELSE NumberOf("multiplies", lhs.ret, rhs.ret, rhs.st)

\* Div::Execute once lhs_ and rhs_ have yielded lhs and rhs.  The quotient
\* of the least int and -1 does not fit an int, which is undefined: the
\* division traps or wraps.
Divided(lhs, rhs, st) ==
    IF rhs.kind # "Number"
    THEN Throw(Dropped(Dropped(st, rhs), lhs), "Divisor is not defined!")
    ELSE IF rhs.num = 0 THEN Throw(Dropped(st, lhs), "Division by zero!")
    ELSE IF lhs.kind # "Number"
    THEN Throw(Dropped(st, lhs), "Argument (dividend) is not executable!")
    ELSE IF lhs.num = IntMin /\ rhs.num = -1 /\ st.uaf = "crash"
    THEN Crash(st)
    ELSE Ok(st, GetFunctionResult("Number", lhs, rhs, "divides").value)

\* ObjectHolder Div::Execute(Closure& closure, Context& context)
DivExecute(n, c, st) ==
    LET lhs == Execute(n.lhs_, c, st)
        rhs == Execute(n.rhs_, c, lhs.st)
    IN IF lhs.sig # "ok" THEN lhs
       ELSE IF rhs.sig # "ok" THEN [rhs EXCEPT !.st = Dropped(@, lhs.ret)]
       ELSE Divided(lhs.ret, rhs.ret, rhs.st)

\* ObjectHolder Comparison::Execute(Closure& closure, Context& context):
\* the two operands are arguments of one call of cmp_.
ComparisonExecute(n, c, st) ==
    LET left_first == st.order = "left_first"
        x == Execute(IF left_first THEN n.lhs_ ELSE n.rhs_, c, st)
        y == Execute(IF left_first THEN n.rhs_ ELSE n.lhs_, c, x.st)
        lhs == IF left_first THEN x.ret ELSE y.ret
        rhs == IF left_first THEN y.ret ELSE x.ret
        r == Compare(n.cmp_, lhs, rhs, y.st)
    IN IF x.sig # "ok" THEN x
       ELSE IF y.sig # "ok" THEN [y EXCEPT !.st = Dropped(@, x.ret)]
       ELSE [r EXCEPT !.st = Dropped(Dropped(@, lhs), rhs)]

\* Or::Execute executing both operands before it tests the left one.
OrExecute_Eager(n, c, st) ==
    LET lhs == Execute(n.lhs_, c, st)
        rhs == Execute(n.rhs_, c, lhs.st)
    IN IF lhs.sig # "ok" THEN lhs
       ELSE IF rhs.sig # "ok" THEN [rhs EXCEPT !.st = Dropped(@, lhs.ret)]
       ELSE Ok(Dropped(Dropped(rhs.st, rhs.ret), lhs.ret),
               BoolHolder(IsTrue(lhs.ret) \/ IsTrue(rhs.ret)))

\* ObjectHolder Or::Execute(Closure& closure, Context& context)
OrExecute(n, c, st) ==
    LET lhs == Execute(n.lhs_, c, st)
        rhs == Execute(n.rhs_, c, lhs.st)
    IN IF lhs.sig # "ok" THEN lhs
       ELSE IF Faults(lhs.st, lhs.ret) THEN Crash(lhs.st)
       ELSE IF IsTrue(lhs.ret)
            THEN Ok(Dropped(lhs.st, lhs.ret), BoolHolder(TRUE))
       ELSE IF rhs.sig # "ok" THEN [rhs EXCEPT !.st = Dropped(@, lhs.ret)]
       ELSE IF Faults(rhs.st, rhs.ret) THEN Crash(rhs.st)
       ELSE Ok(Dropped(Dropped(rhs.st, rhs.ret), lhs.ret),
               BoolHolder(IsTrue(rhs.ret)))

\* ObjectHolder And::Execute(Closure& closure, Context& context)
AndExecute(n, c, st) ==
    LET lhs == Execute(n.lhs_, c, st)
        rhs == Execute(n.rhs_, c, lhs.st)
    IN IF lhs.sig # "ok" THEN lhs
       ELSE IF Faults(lhs.st, lhs.ret) THEN Crash(lhs.st)
       ELSE IF ~IsTrue(lhs.ret)
            THEN Ok(Dropped(lhs.st, lhs.ret), BoolHolder(FALSE))
       ELSE IF rhs.sig # "ok" THEN [rhs EXCEPT !.st = Dropped(@, lhs.ret)]
       ELSE IF Faults(rhs.st, rhs.ret) THEN Crash(rhs.st)
       ELSE Ok(Dropped(Dropped(rhs.st, rhs.ret), lhs.ret),
               BoolHolder(IsTrue(rhs.ret)))

\* ObjectHolder Not::Execute(Closure& closure, Context& context)
NotExecute(n, c, st) ==
    LET obj == Execute(n.argument_, c, st)
    IN IF obj.sig # "ok" THEN obj
       ELSE IF Faults(obj.st, obj.ret) THEN Crash(obj.st)
       ELSE Ok(Dropped(obj.st, obj.ret), BoolHolder(~IsTrue(obj.ret)))

RECURSIVE ExecuteStatements(_, _, _, _)

\* The loop of Compound::Execute going on with the next statement after a
\* statement has thrown the holder of a Return.
ExecuteStatements_CatchesReturn(statements_, i, c, st) ==
    IF i > Len(statements_) THEN Ok(st, None)
    ELSE LET r == Execute(statements_[i], c, st)
         IN IF r.sig \notin {"ok", "return"} THEN r
            ELSE ExecuteStatements(statements_, i + 1, c,
                                   Dropped(r.st, r.ret))

\* The loop of Compound::Execute from index i on.
ExecuteStatements(statements_, i, c, st) ==
    IF i > Len(statements_) THEN Ok(st, None)
    ELSE LET r == Execute(statements_[i], c, st)
         IN IF r.sig # "ok" THEN r
            ELSE ExecuteStatements(statements_, i + 1, c,
                                   Dropped(r.st, r.ret))

\* ObjectHolder Compound::Execute(Closure& closure, Context& context)
CompoundExecute(n, c, st) == ExecuteStatements(n.statements_, 1, c, st)

\* MethodBody::Execute catching every exception, std::runtime_error too.
MethodBodyExecute_CatchesAll(n, c, st) ==
    LET r == Execute(n.body_, c, st)
    IN IF r.sig \in {"return", "runtime_error"}
       THEN Ok(Logged(r.st, "catch", ""), r.ret)
       ELSE IF r.sig = "ok" THEN Ok(Dropped(r.st, r.ret), None)
       ELSE r

\* ObjectHolder MethodBody::Execute(Closure& closure, Context& context)
MethodBodyExecute(n, c, st) ==
    LET r == Execute(n.body_, c, st)
    IN IF r.sig = "return" THEN Ok(Logged(r.st, "catch", ""), r.ret)
       ELSE IF r.sig = "ok" THEN Ok(Dropped(r.st, r.ret), None)
       ELSE r

\* ObjectHolder Return::Execute(Closure& closure, Context& context)
ReturnExecute(n, c, st) ==
    LET r == Execute(n.statement_, c, st)
    IN IF r.sig # "ok" THEN r
       ELSE [st |-> Logged(r.st, "throw", ""), sig |-> "return",
             ret |-> r.ret, what |-> ""]

\* ObjectHolder ClassDefinition::Execute(Closure& closure, Context&)
ClassDefinitionExecute(n, c, st) ==
    LET cl == ClosureAt(st, c)
        old == Stored(cl, n.cls_)
    IN Ok(Dropped(PutClosure(st, c, Store(cl, n.cls_, ClassHolder(n.cls_))),
                  old),
          None)

\* ObjectHolder IfElse::Execute(Closure& closure, Context& context)
IfElseExecute(n, c, st) ==
    LET condition == Execute(n.condition_, c, st)
        st1 == Dropped(condition.st, condition.ret)
    IN IF condition.sig # "ok" THEN condition
       ELSE IF Faults(condition.st, condition.ret) THEN Crash(condition.st)
       ELSE IF IsTrue(condition.ret) THEN Execute(n.if_body_, c, st1)
       ELSE IF n.else_body_.node # "nullptr" THEN Execute(n.else_body_, c, st1)
       ELSE Ok(st1, None)

\* The name a node is logged with.
NameOf(n) ==
    CASE n.node = "Assignment" -> n.var_
      [] n.node = "FieldAssignment" -> n.field_name_
      [] n.node = "MethodCall" -> n.method_
      [] n.node = "VariableValue" -> n.var_names_[Len(n.var_names_)]
      [] OTHER -> ""

\* Executable::Execute, dispatched on the class of the node
Execute(n, c, st) ==
    LET st1 == Logged(st, n.node, NameOf(n))
    IN CASE n.node \in {"NumericConst", "StringConst", "BoolConst"} ->
                ValueStatementExecute(n, c, st1)
         [] n.node = "None" -> NoneExecute(n, c, st1)
         [] n.node = "VariableValue" -> VariableValueExecute(n, c, st1)
         [] n.node = "Assignment" -> AssignmentExecute(n, c, st1)
         [] n.node = "FieldAssignment" -> FieldAssignmentExecute(n, c, st1)
         [] n.node = "MethodCall" -> MethodCallExecute(n, c, st1)
         [] n.node = "NewInstance" -> NewInstanceExecute(n, c, st1)
         [] n.node = "Comparison" -> ComparisonExecute(n, c, st1)
         [] n.node = "Add" -> AddExecute(n, c, st1)
         [] n.node = "Sub" -> SubExecute(n, c, st1)
         [] n.node = "Mult" -> MultExecute(n, c, st1)
         [] n.node = "Div" -> DivExecute(n, c, st1)
         [] n.node = "Or" -> OrExecute(n, c, st1)
         [] n.node = "And" -> AndExecute(n, c, st1)
         [] n.node = "Not" -> NotExecute(n, c, st1)
         [] n.node = "Compound" -> CompoundExecute(n, c, st1)
         [] n.node = "MethodBody" -> MethodBodyExecute(n, c, st1)
         [] n.node = "Return" -> ReturnExecute(n, c, st1)
         [] n.node = "ClassDefinition" -> ClassDefinitionExecute(n, c, st1)
         [] n.node = "IfElse" -> IfElseExecute(n, c, st1)

-----------------------------------------------------------------------------
(* The top-level statements.  A program is a Compound of statements run    *)
(* against one Closure; the model runs the loop of that Compound one       *)
(* statement at a time, each statement drawn from a pool, so that every    *)
(* program of at most MaxRuns statements of the pool is run.               *)
(*                                                                         *)
(* done is a record [stmt, sig, ret, what, log, runs]: the index of the    *)
(* last statement in its pool, its outcome as Execute yields it, its log   *)
(* and the number of statements run so far.                                *)
(***************************************************************************)

NoRun ==
    [stmt |-> 0, sig |-> "none", ret |-> None, what |-> "", log |-> <<>>,
     runs |-> 0]

\* The state the next top-level statement runs in.
State(u, ord) ==
    [heap |-> heap, globals |-> closure, frames |-> <<>>, log |-> <<>>,
     uaf |-> u, order |-> ord]

\* The statement i of the pool has yielded r: the holder it returned is
\* destroyed.
Executed(i, r) ==
    /\ closure' = r.st.globals
    /\ heap' = IF r.sig = "ok" THEN Release(r.ret, r.st.heap) ELSE r.st.heap
    /\ done' = [stmt |-> i, sig |-> r.sig, ret |-> r.ret, what |-> r.what,
                log |-> r.st.log, runs |-> done.runs + 1]

\* One turn of the loop of Compound::Execute at the top level, on the
\* statement pool[i].  The loop ends when a statement throws.
Run(pool, i) ==
    /\ done.sig \in {"none", "ok"}
    /\ done.runs < MaxRuns
    /\ \E u \in UseAfterFree, ord \in ArgumentOrder :
         Executed(i, Execute(pool[i], 0, State(u, ord)))
    /\ UNCHANGED <<lexer, pc, last>>

\* p = A(1); q = p; q.n = 2; q.set(3); y = p.me(); p = None; r = y.n;
\* x = A(1).get(); z = q.self; q = B(); w = q.g().n
Objects ==
    << Assignment("p", NewInstance("A", <<NumericConst(1)>>)),
       Assignment("q", Variable("p")),
       FieldAssignment(Variable("q"), "n", NumericConst(2)),
       MethodCall(Variable("q"), "set", <<NumericConst(3)>>),
       Assignment("y", MethodCall(Variable("p"), "me", <<>>)),
       Assignment("p", NoneConst),
       Assignment("r", VariableValue(<<"y", "n">>)),
       Assignment("x", MethodCall(NewInstance("A", <<NumericConst(1)>>),
                                  "get", <<>>)),
       Assignment("z", VariableValue(<<"q", "self">>)),
       Assignment("q", NewInstance("B", <<>>)),
       Assignment("w", MethodCall(Variable("q"), "g", <<>>)) >>

\* p = A(1); p; p.n; p.m; p.n.k; u; r = p.early(); s = p.outer();
\* t = p.bad()
Statements ==
    << Assignment("p", NewInstance("A", <<NumericConst(1)>>)),
       Variable("p"),
       VariableValue(<<"p", "n">>),
       VariableValue(<<"p", "m">>),
       VariableValue(<<"p", "n", "k">>),
       Variable("u"),
       Assignment("r", MethodCall(Variable("p"), "early", <<>>)),
       Assignment("s", MethodCall(Variable("p"), "outer", <<>>)),
       Assignment("t", MethodCall(Variable("p"), "bad", <<>>)) >>

\* v = None; v = 0; v = 3; v = ""; v = "a"; v = True; v = False; v = A(1);
\* class A; v = A; n = not v; if v: b = 1 else: b = 0;
\* o = v or (e = 1); o = v or zz; o = v or ""; a = v and (e = 2);
\* a = v and zz; a = v and ""
Logic ==
    << Assignment("v", NoneConst),
       Assignment("v", NumericConst(0)),
       Assignment("v", NumericConst(3)),
       Assignment("v", StringConst(<<>>)),
       Assignment("v", StringConst(<<97>>)),
       Assignment("v", BoolConst(TRUE)),
       Assignment("v", BoolConst(FALSE)),
       Assignment("v", NewInstance("A", <<NumericConst(1)>>)),
       ClassDefinition("A"),
       Assignment("v", Variable("A")),
       Assignment("n", Not(Variable("v"))),
       IfElse(Variable("v"), Assignment("b", NumericConst(1)),
              Assignment("b", NumericConst(0))),
       Assignment("o", Or(Variable("v"), Assignment("e", NumericConst(1)))),
       Assignment("o", Or(Variable("v"), Variable("zz"))),
       Assignment("o", Or(Variable("v"), StringConst(<<>>))),
       Assignment("a", And(Variable("v"), Assignment("e", NumericConst(2)))),
       Assignment("a", And(Variable("v"), Variable("zz"))),
       Assignment("a", And(Variable("v"), StringConst(<<>>))) >>

\* The values the programs about comparisons compare: None, 1, 2, "a",
\* "ab", True, False, A(1), A(2), C()
Operands ==
    << NoneConst, NumericConst(1), NumericConst(2), StringConst(<<97>>),
       StringConst(<<97, 98>>), BoolConst(TRUE), BoolConst(FALSE),
       NewInstance("A", <<NumericConst(1)>>),
       NewInstance("A", <<NumericConst(2)>>), NewInstance("C", <<>>) >>

\* The functions a Comparison is built with.
Comparators ==
    << "Equal", "NotEqual", "Less", "Greater", "LessOrEqual",
       "GreaterOrEqual" >>

\* x = <operand>; y = <operand>; c = x <comparator> y
Comparisons ==
    [i \in 1..Len(Operands) |-> Assignment("x", Operands[i])]
    \o [i \in 1..Len(Operands) |-> Assignment("y", Operands[i])]
    \o [i \in 1..Len(Comparators) |->
          Assignment("c", Comparison(Comparators[i], Variable("x"),
                                     Variable("y")))]

\* d = A(k = 1); d = A(); d = B(k = 5); d = D(k = 6, k = 7); d = D(k = 8);
\* d = C(); d = 1; r = d.get(); r = d.me(); r = d.set(k = 1, k = 2);
\* r = d.set(k = 3); r = d.h(k = 4); zz = 1; r = d.bad(); r = d.loc();
\* c = d == d; c = d < d
Dispatch ==
    << Assignment("d", NewInstance("A",
                       <<Assignment("k", NumericConst(1))>>)),
       Assignment("d", NewInstance("A", <<>>)),
       Assignment("d", NewInstance("B",
                       <<Assignment("k", NumericConst(5))>>)),
       Assignment("d", NewInstance("D",
                       << Assignment("k", NumericConst(6)),
                          Assignment("k", NumericConst(7)) >>)),
       Assignment("d", NewInstance("D",
                       <<Assignment("k", NumericConst(8))>>)),
       Assignment("d", NewInstance("C", <<>>)),
       Assignment("d", NumericConst(1)),
       Assignment("r", MethodCall(Variable("d"), "get", <<>>)),
       Assignment("r", MethodCall(Variable("d"), "me", <<>>)),
       Assignment("r", MethodCall(Variable("d"), "set",
                       << Assignment("k", NumericConst(1)),
                          Assignment("k", NumericConst(2)) >>)),
       Assignment("r", MethodCall(Variable("d"), "set",
                       <<Assignment("k", NumericConst(3))>>)),
       Assignment("r", MethodCall(Variable("d"), "h",
                       <<Assignment("k", NumericConst(4))>>)),
       Assignment("zz", NumericConst(1)),
       Assignment("r", MethodCall(Variable("d"), "bad", <<>>)),
       Assignment("r", MethodCall(Variable("d"), "loc", <<>>)),
       Assignment("c", Comparison("Equal", Variable("d"), Variable("d"))),
       Assignment("c", Comparison("Less", Variable("d"), Variable("d"))) >>

\* The values the programs about arithmetic compute with: None, 0, 7, the
\* largest int, "a", True, A(k = 3), C()
Terms ==
    << NoneConst, NumericConst(0), NumericConst(7), NumericConst(IntMax),
       StringConst(<<97>>), BoolConst(TRUE),
       NewInstance("A", <<NumericConst(3)>>), NewInstance("C", <<>>) >>

\* The classes derived from BinaryOperation.
BinaryOperations == << "Add", "Sub", "Mult", "Div" >>

\* x = <term>; y = <term>; z = x <operation> y
Arithmetic ==
    [i \in 1..Len(Terms) |-> Assignment("x", Terms[i])]
    \o [i \in 1..Len(Terms) |-> Assignment("y", Terms[i])]
    \o [i \in 1..Len(BinaryOperations) |->
          Assignment("z", BinaryOperation(BinaryOperations[i], Variable("x"),
                                          Variable("y")))]

-----------------------------------------------------------------------------
(* The streams the model lexes. *)

Alphabet == {SP, NL, HASH, "a", "1", TAB, "=", DQ}

Streams(n) == UNION {[1..k -> Alphabet] : k \in 0..n}

\* Longer streams: indentation that changes by two levels, keywords,
\* punctuation, escapes, digit runs around the largest int.
Samples ==
    { <<"a", NL, SP, SP, SP, SP, "b", NL, "c">>,
      <<SP, SP, "a", NL, SP, SP, SP, SP, "b", NL, SP, SP, HASH, "c">>,
      <<"i", "f", SP, "x", ":", NL, SP, SP, "o", "r", "_", "1">>,
      <<"x", "=", SQ, "a", BSL, "n", BSL, "q", SQ, NL>>,
      <<"a", "<", "=", "b", "!", "c", ">">>,
      <<"2", "1", "4", "7", "4", "8", "3", "6", "4", "7">>,
      <<"a", SP, "2", "1", "4", "7", "4", "8", "3", "6", "4", "8">>,
      <<"x", "\r", NL>>,
      <<"a", NL, SP, SP, HASH, "c">> }

Inputs == Streams(MaxLen) \cup Samples

InputsE == Streams(MaxLenE) \cup Samples

NoCall == Call("none", "ok", NoToken, NoToken)

InitWith(S) ==
    /\ input \in S
    /\ begin_ = 1
    /\ indent_ = 0
    /\ current_token_index_ = 0
    /\ tokens_ = <<>>
    /\ pc = "new"
    /\ last = NoCall
    /\ closure = <<>>
    /\ heap = <<>>
    /\ done = NoRun

Init == InitWith(Inputs)

Next ==
    \/ Lexer
    \/ NextToken
    \/ CurrentToken

Spec == Init /\ [][Next]_vars

InitE == InitWith(InputsE)

NextE ==
    \/ Lexer
    \/ NextToken
    \/ \E T \in ExpectTypes : Expect(T)
    \/ \E want \in ExpectValues : ExpectValue(want)
    \/ \E T \in ExpectTypes : ExpectNext(T)
    \/ \E want \in ExpectValues : ExpectNextValue(want)

SpecE == InitE /\ [][NextE]_vars

\* The evaluator before the first statement: the lexer is not part of it.
InitR == InitWith({<<>>})

\* Programs about instances, their holders and their fields.
NextO == \E i \in 1..Len(Objects) : Run(Objects, i)

SpecO == InitR /\ [][NextO]_vars

\* Programs that read variables and fields, return from methods and fail.
NextS == \E i \in 1..Len(Statements) : Run(Statements, i)

SpecS == InitR /\ [][NextS]_vars

\* Programs that test values for truth.
NextL == \E i \in 1..Len(Logic) : Run(Logic, i)

SpecL == InitR /\ [][NextL]_vars

\* Programs that compare values.
NextC == \E i \in 1..Len(Comparisons) : Run(Comparisons, i)

SpecC == InitR /\ [][NextC]_vars

\* Programs that build instances and call their methods.
NextD == \E i \in 1..Len(Dispatch) : Run(Dispatch, i)

SpecD == InitR /\ [][NextD]_vars

\* Programs that add, subtract, multiply and divide.
NextA == \E i \in 1..Len(Arithmetic) : Run(Arithmetic, i)

SpecA == InitR /\ [][NextA]_vars

-----------------------------------------------------------------------------
(* The complete token stream of a stream of characters. *)

\* The constructor's LoadTokens followed by the LoadTokens of every later
\* NextToken, until Eof is in the buffer or a call does not return.
RECURSIVE LoadAll(_, _, _, _, _)
LoadAll(s, b, toks, ind, e) ==
    LET r == LoadTokens(s, b, toks, ind, e)
    IN IF r.out # "ok" \/ ~NeedsLoad(r.tokens) THEN r
       ELSE LoadAll(s, r.begin, r.tokens, r.indent, e)

TokenStream(s, e) ==
    LET r == LoadAll(s, 1, <<>>, 0, e)
    IN [out |-> r.out, tokens |-> r.tokens]

-----------------------------------------------------------------------------
(* Properties of the token buffer. *)

RECURSIVE Count(_, _)
Count(toks, type) ==
    IF toks = <<>> THEN 0
    ELSE (IF Head(toks).type = type THEN 1 ELSE 0) + Count(Tail(toks), type)

\* Eof has been appended: the token stream is complete.
Complete == tokens_ # <<>> /\ Back(tokens_).type = "Eof"

\* C1: in every state indent_ is the number of Indent tokens minus the
\* number of Dedent tokens appended so far and is not negative; once Eof is
\* appended indent_ is 0, so the stream holds as many Indents as Dedents.
C1_IndentBalance ==
    /\ indent_ = Count(tokens_, "Indent") - Count(tokens_, "Dedent")
    /\ indent_ >= 0
    /\ Complete =>
         /\ indent_ = 0
         /\ Count(tokens_, "Indent") = Count(tokens_, "Dedent")

\* A complete stream in which the indentation rose by two levels at once.
C1_Witness ==
    /\ Complete
    /\ \E i \in 1..(Len(tokens_) - 1) :
         tokens_[i].type = "Indent" /\ tokens_[i + 1].type = "Indent"

\* The buffer ends with a Newline, then zero or more Dedents, then Eof.
EndsNewlineDedentsEof(toks) ==
    /\ toks # <<>>
    /\ Back(toks).type = "Eof"
    /\ \E k \in 1..(Len(toks) - 1) :
         /\ toks[k].type = "Newline"
         /\ \A j \in (k + 1)..(Len(toks) - 1) : toks[j].type = "Dedent"

\* Eof occurs nowhere but in the last place of the buffer.
EofOnlyLast(toks) ==
    \A i \in 1..(Len(toks) - 1) : toks[i].type # "Eof"

\* C2 as claimed: every complete stream ends with a Newline, then zero or
\* more Dedents, then one Eof, and holds Eof nowhere else.
C2_EndsNewlineDedentsEof ==
    /\ EofOnlyLast(tokens_)
    /\ Complete => EndsNewlineDedentsEof(tokens_)

\* C2 as amended: Eof occurs only as the last token; a complete stream in
\* which a token precedes Eof ends with a Newline, then zero or more
\* Dedents, then Eof; a complete stream of a lexer that met the end of the
\* stream with an empty buffer is Eof alone.
C2_Amended ==
    /\ EofOnlyLast(tokens_)
    /\ Complete =>
         \/ EndsNewlineDedentsEof(tokens_)
         \/ tokens_ = <<Eof>>
    /\ (Complete /\ Len(tokens_) > 1) => EndsNewlineDedentsEof(tokens_)

\* A complete stream that closes an indented block: ..., Newline, Dedent, Eof.
C2_Witness ==
    /\ Complete
    /\ Len(tokens_) >= 4
    /\ tokens_[Len(tokens_) - 1].type = "Dedent"
    /\ tokens_[Len(tokens_) - 2].type = "Newline"

\* C3: the buffer never holds two Newline tokens in a row.
C3_NoDoubleNewline ==
    \A i \in 1..(Len(tokens_) - 1) :
        ~(tokens_[i].type = "Newline" /\ tokens_[i + 1].type = "Newline")

\* A complete stream of an input with a token, then a blank line, then the
\* end of the stream right after a '\n'.
C3_Witness ==
    /\ Complete
    /\ Len(input) >= 3
    /\ input[Len(input)] = NL
    /\ input[Len(input) - 1] = NL
    /\ \A i \in 1..Len(input) : ~IsQuote(input[i])
    /\ Count(tokens_, "Newline") = 1

\* A '#' of s that no quote precedes: it starts a comment.
StartsComment(s, i) ==
    /\ s[i] = HASH
    /\ \A j \in 1..(i - 1) : ~IsQuote(s[j])

\* s without the comment that starts at i: the characters from s[i] up to,
\* and not including, the next '\n' or the end of the stream.
WithoutComment(s, i) ==
    SubSeq(s, 1, i - 1) \o SubSeq(s, FindNewline(s, i), Len(s))

\* C4: comment transparency.  The complete token stream of the input is the
\* token stream of the input with any one of its comments removed.
C4_CommentTransparency ==
    Complete =>
        \A i \in 1..Len(input) :
            StartsComment(input, i) =>
                TokenStream(WithoutComment(input, i), EOFCH)
                    = [out |-> "ok", tokens |-> tokens_]

\* C5: every call of LoadTokens returns, whatever characters the stream
\* holds.  (The call that reads past the end of the stream, whose outcome
\* the language leaves open, is not counted against the claim.)
C5_LoadTokensReturns == pc # "hung"

\* C6: a call that meets a character no rule matches, or a digit run that
\* does not fit an int, ends with a LexerError and appends no token.
C6_FailsWithLexerError ==
    pc \in {"hung", "out_of_range"} => last.result = "LexerError"

\* From position b, at the start of a line or on the '\n' before it, every
\* line up to the end of the stream is blank: spaces, then '\n', a comment
\* or the end of the stream.
RECURSIVE OnlyBlankLinesAhead(_, _)
OnlyBlankLinesAhead(s, b) ==
    LET j == Skip(s, b, {SP})
    IN \/ j = End(s)
       \/ /\ s[j] = NL
          /\ OnlyBlankLinesAhead(s, j + 1)
       \/ /\ s[j] = HASH
          /\ LET k == FindNewline(s, j + 1)
             IN k = End(s) \/ OnlyBlankLinesAhead(s, k + 1)

\* C7: a blank line emits no Indent or Dedent for its leading spaces and
\* leaves the indent level alone.  Hence a load that starts at a line start
\* with only blank lines left appends nothing but the end of the stream:
\* the Dedents that close the open blocks, and Eof.
C7_BlankLinesEmitNoIndent ==
    [][ ( /\ pc \in {"new", "ready"}
          /\ AtLineStart(tokens_)
          /\ OnlyBlankLinesAhead(input, begin_)
          /\ tokens_' # tokens_ )
        => tokens_' = AssignEofToken(tokens_, indent_).tokens ]_vars

\* C8: every Indent and every Dedent belongs to a run of Indent and Dedent
\* tokens that starts the stream or follows a Newline.
C8_IndentAfterNewline ==
    \A i \in 1..Len(tokens_) :
        tokens_[i].type \in {"Indent", "Dedent"} =>
            \E k \in 1..i :
                /\ k = 1 \/ tokens_[k - 1].type = "Newline"
                /\ \A j \in k..i : tokens_[j].type \in {"Indent", "Dedent"}

\* A complete stream with an Indent after a Newline in its middle and a
\* Dedent that is followed by a token of the next line.
C8_Witness ==
    /\ Complete
    /\ \E i \in 2..Len(tokens_) :
         tokens_[i].type = "Indent" /\ tokens_[i - 1].type = "Newline"
    /\ \E i \in 2..(Len(tokens_) - 1) :
         /\ tokens_[i].type = "Dedent"
         /\ tokens_[i + 1].type \in {"Id", "Number", "Char", "String"}

-----------------------------------------------------------------------------
(* Properties of the calls. *)

\* The step is a call of NextToken that loads (Eof is not yet in the
\* buffer) and returns.
LoadingNextToken ==
    /\ pc = "ready"
    /\ pc' = "ready"
    /\ last'.op = "NextToken"
    /\ ~Complete
    /\ <<lexer, last>> # <<lexer, last>>'

\* tokens_' is tokens_ followed by at least one more token.
Appended == SubSeq(tokens_', Len(tokens_) + 1, Len(tokens_'))

AppendsOnly ==
    /\ Len(tokens_') >= Len(tokens_)
    /\ SubSeq(tokens_', 1, Len(tokens_)) = tokens_

\* C9 as claimed: a call of NextToken made before Eof is in the buffer
\* makes the buffer grow by exactly one token.  (The call that seals the
\* stream with Eof is left out: the claim fails without it.)
C9_OneTokenPerCall ==
    [][ (LoadingNextToken /\ Back(tokens_').type # "Eof")
        => Len(tokens_') = Len(tokens_) + 1 ]_vars

\* C9 as amended: such a call appends at least one token and moves the
\* current index forward by exactly one; it appends more than one token
\* only when the tokens are a run of Indents, a run of Dedents, or the end
\* of the stream (the last one is Eof).
C9_Amended ==
    [][ LoadingNextToken =>
          /\ AppendsOnly
          /\ Len(tokens_') >= Len(tokens_) + 1
          /\ current_token_index_' = current_token_index_ + 1
          /\ last'.ret = tokens_'[current_token_index_' + 1]
          /\ Len(tokens_') > Len(tokens_) + 1 =>
               \/ \A j \in 1..Len(Appended) : Appended[j].type = "Indent"
               \/ \A j \in 1..Len(Appended) : Appended[j].type = "Dedent"
               \/ Back(tokens_').type = "Eof" ]_vars

\* NextToken has just returned the first of two Indent tokens that its load
\* appended after a Newline.
C9_Witness ==
    /\ last.op = "NextToken"
    /\ current_token_index_ >= 1
    /\ Len(tokens_) = current_token_index_ + 2
    /\ tokens_[current_token_index_].type = "Newline"
    /\ tokens_[current_token_index_ + 1].type = "Indent"
    /\ tokens_[current_token_index_ + 2].type = "Indent"

\* The outcome of the last call is the one its test of the current token
\* demands: Expect<T>() and ExpectNext<T>() return the current token iff
\* its type is T, Expect<T>(v) and ExpectNext<T>(v) return iff the current
\* token equals the token T{v}; otherwise they throw LexerError.
ExpectOutcome ==
    LET cur == TokenAt(tokens_, current_token_index_)
    IN /\ (pc = "ready" /\ last.op \in {"Expect", "ExpectNext"}) =>
            /\ last.result \in {"ok", "LexerError"}
            /\ last.result = "ok" <=> cur.type = last.want.type
            /\ last.result = "ok" => last.ret = cur
       /\ (pc = "ready" /\ last.op \in {"ExpectValue", "ExpectNextValue"}) =>
            /\ last.result \in {"ok", "LexerError"}
            /\ last.result = "ok" <=> TokenEq(cur, last.want)

\* Expect leaves the lexer as it is, whatever its outcome.
ExpectKeeps ==
    last'.op \in {"Expect", "ExpectValue"} => UNCHANGED <<lexer, pc>>

\* ExpectNext that returns or throws LexerError has advanced the lexer as
\* one call of NextToken does: the buffer is extended iff Eof was not in
\* it, and the index moves by one unless it is at the last token.
ExpectNextAdvances ==
    ( /\ last'.op \in {"ExpectNext", "ExpectNextValue"}
      /\ pc' = "ready"
      /\ <<lexer, last>> # <<lexer, last>>' )
    => /\ AppendsOnly
       /\ Len(tokens_') > Len(tokens_) <=> ~Complete
       /\ current_token_index_' =
             IF current_token_index_ + 1 < Len(tokens_')
             THEN current_token_index_ + 1 ELSE current_token_index_

\* C10: Expect and ExpectNext return iff the (new) current token has the
\* type, and the payload, asked for, and throw LexerError otherwise; Expect
\* changes nothing; ExpectNext advances by one NextToken first, so it stays
\* advanced when it throws.
C10_Expect ==
    /\ []ExpectOutcome
    /\ [][ExpectKeeps]_vars
    /\ [][ExpectNextAdvances]_vars

\* ExpectNext has thrown LexerError and the lexer stays advanced.
C10_Witness ==
    /\ pc = "ready"
    /\ last.op = "ExpectNextValue"
    /\ last.result = "LexerError"
    /\ current_token_index_ = 2
    /\ TokenAt(tokens_, current_token_index_).type = last.want.type

-----------------------------------------------------------------------------
(* Claims about instances and their holders, checked under SpecO.          *)
(***************************************************************************)

\* Every holder of the Closure m refers to an object that is not destroyed.
ClosureLive(m) == \A name \in DOMAIN m : ~Dangling(m[name], heap)

\* C11: after any sequence of NewInstance, Assignment, FieldAssignment,
\* MethodCall and Return, every non-empty holder stored in a closure or in
\* the field map of an instance refers to a live object, and every method
\* that ran, ran on a live receiver: an instance is destroyed only after its
\* last holder is gone, the holders Share makes for self included.
C11_HoldersReferToLive ==
    /\ ClosureLive(closure)
    /\ \A a \in 1..Len(heap) : heap[a].live => ClosureLive(heap[a].closure_)
    /\ \A i \in 1..Len(done.log) :
           done.log[i][2] # "Call on a destroyed object"

\* C12: the self entry of the field map of every instance NewInstance
\* returned refers to that same instance.
C12_SelfIsTheInstance ==
    \A a \in 1..Len(heap) :
        heap[a].live => /\ "self" \in DOMAIN heap[a].closure_
                        /\ heap[a].closure_["self"] = Share(a)

\* The field n of the instance behind p.
FieldNOfP == heap[closure["p"].addr].closure_["n"]

\* The statements of Objects that write the field n through q, by a
\* FieldAssignment and through self in a method called on q, and the
\* value each writes.
WritesThroughQ == {3, 4}

WrittenThroughQ(i) == IF i = 3 THEN NumericConst(2).value_
                      ELSE NumericConst(3).value_

\* C13: Assignment copies the holder, not the instance: once q = p has run
\* on an instance p, a write of a field through q, by a FieldAssignment or
\* through self inside a method called on q, is read through p.
C13_InstanceSharing ==
    [][ ( /\ done.stmt = 2
          /\ done.sig = "ok"
          /\ closure["p"].kind = "ClassInstance"
          /\ done'.stmt \in WritesThroughQ
          /\ done'.sig = "ok" )
        => FieldNOfP' = WrittenThroughQ(done'.stmt) ]_vars

\* q.set(3) has run after q = p and p.n is 3.
C13_Witness ==
    /\ done.stmt = 4
    /\ done.sig = "ok"
    /\ {"p", "q"} \subseteq DOMAIN closure
    /\ closure["p"].kind = "ClassInstance"
    /\ closure["q"] = closure["p"]
    /\ heap[closure["p"].addr].owners = 2
    /\ FieldNOfP = NumericConst(3).value_

\* The statements of Statements that are a VariableValue.
Reads == {i \in 1..Len(Statements) : Statements[i].node = "VariableValue"}

RECURSIVE BoundFrom(_, _, _)

\* Every name of var_names_ from index i on is bound, obj being the value
\* of the names before it: obj is an instance whose fields hold the name.
BoundFrom(var_names_, i, obj) ==
    \/ i > Len(var_names_)
    \/ /\ obj.kind = "ClassInstance"
       /\ var_names_[i] \in DOMAIN heap[obj.addr].closure_
       /\ BoundFrom(var_names_, i + 1,
                    heap[obj.addr].closure_[var_names_[i]])

\* Every name of the chain is bound in the closure and the heap.
ChainBound(var_names_) ==
    /\ var_names_[1] \in DOMAIN closure
    /\ BoundFrom(var_names_, 2, closure[var_names_[1]])

\* C14: VariableValue raises a runtime error when the first name is not
\* bound in the closure, when an intermediate value of the chain is not a
\* ClassInstance and when a name is missing from the fields of the instance
\* it is read from; it returns a value only when every name is bound.
C14_VariableValueRaises ==
    [][ done'.stmt \in Reads
        => done'.sig = IF ChainBound(Statements[done'.stmt].var_names_)
                       THEN "ok" ELSE "runtime_error" ]_vars

\* The fields of the instance p holds.
FieldsOfP == heap[closure["p"].addr].closure_

\* The position k of the log of the last statement is a Return that has
\* evaluated its expression and throws it.
Thrown(k) == done.log[k][2] = "throw"

\* The position k of the log is a MethodBody catching what its body threw.
Caught(k) == done.log[k][2] = "catch"

\* The statement of Statements that assigns the result of a call of method.
Calls(method) ==
    CHOOSE i \in 1..Len(Statements) :
        /\ Statements[i].node = "Assignment"
        /\ Statements[i].rv_.node = "MethodCall"
        /\ Statements[i].rv_.method_ = method

CallsEarly == Calls("early")

CallsOuter == Calls("outer")

\* C15: Return evaluates its expression and unwinds to the nearest
\* enclosing MethodBody: nothing runs between the throw and the catch, the
\* catch is in the frame of the throw, the MethodBody yields the value of
\* the expression, the statements after the Return are not executed and
\* those of the caller that follow the call are.
C15_ReturnUnwinds ==
    /\ \A k \in 1..Len(done.log) :
         Thrown(k) => /\ k < Len(done.log)
                      /\ Caught(k + 1)
                      /\ done.log[k + 1][1] = done.log[k][1]
                      /\ \E j \in 1..(k - 2) :
                           done.log[j] = <<done.log[k][1], "Return", "">>
    /\ done.stmt = CallsEarly /\ done.sig = "ok"
         => /\ done.ret = NumericConst(1).value_
            /\ closure["r"] = done.ret
            /\ FieldsOfP["a"] = done.ret
            /\ "b" \notin DOMAIN FieldsOfP
            /\ <<1, "FieldAssignment", "b">> \notin
                   {done.log[k] : k \in 1..Len(done.log)}
    /\ done.stmt = CallsOuter /\ done.sig = "ok"
         => /\ done.ret = NumericConst(7).value_
            /\ closure["s"] = done.ret
            /\ FieldsOfP["x"] = NumericConst(1).value_
            /\ FieldsOfP["y"] = NumericConst(1).value_
            /\ "b" \notin DOMAIN FieldsOfP

\* outer has run: the Return of early was thrown in the frame of early and
\* caught there, outer went on and its own Return was caught in its frame.
C15_Witness ==
    /\ done.stmt = CallsOuter
    /\ done.sig = "ok"
    /\ \E j, k \in 1..Len(done.log) :
         /\ j < k
         /\ Thrown(j) /\ done.log[j][1] = 2
         /\ Thrown(k) /\ done.log[k][1] = 1
         /\ \E m \in j..k : done.log[m] = <<1, "FieldAssignment", "y">>
    /\ FieldsOfP["y"] = NumericConst(1).value_

\* The statement of Statements that calls bad.
CallsBad == Calls("bad")

\* The last statement has entered the method bad.
EnteredBad == \E k \in 1..Len(done.log) : done.log[k] = <<0, "Call", "bad">>

\* C16: a runtime error raised in a method body is not caught by MethodBody
\* and does not become the value of the method: it reaches the top-level
\* caller unchanged and nothing runs after the node that raised it; a
\* MethodBody catches only what a Return threw, and no Return reaches the
\* top level.
C16_ErrorsPropagate ==
    /\ done.sig # "return"
    /\ \A k \in 1..Len(done.log) : Caught(k) => k > 1 /\ Thrown(k - 1)
    /\ done.sig = "runtime_error"
         => /\ done.log[Len(done.log)][2] = "VariableValue"
            /\ done.ret = None
    /\ done.stmt = CallsBad
         => /\ done.sig = "runtime_error"
            /\ done.what = "No variable!"
            /\ "t" \notin DOMAIN closure
            /\ EnteredBad
                 => /\ done.log[Len(done.log)] = <<1, "VariableValue", "zz">>
                    /\ FieldsOfP["m"] = NumericConst(1).value_
                    /\ "k" \notin DOMAIN FieldsOfP

\* bad has run on an instance and the error of its second statement has
\* reached the top level.
C16_Witness ==
    /\ done.stmt = CallsBad
    /\ EnteredBad
    /\ done.sig = "runtime_error"
    /\ done.what = "No variable!"
    /\ FieldsOfP["m"] = NumericConst(1).value_

\* The statements of Logic that assign an Or or an And.
ShortCircuits ==
    {i \in 1..Len(Logic) :
        /\ Logic[i].node = "Assignment"
        /\ Logic[i].rv_.node \in {"Or", "And"}}

\* What the operands of the Or or And node yield before the step: the left
\* one, and the right one run after it.
LeftOf(node) == Execute(node.lhs_, 0, State("stale", "left_first"))

RightOf(node) == Execute(node.rhs_, 0, LeftOf(node).st)

\* The left operand decides: it is true in an Or, not true in an And.
Decides(node, lhs) == IsTrue(lhs) <=> node.node = "Or"

\* C17: Or does not execute its right operand when the left one is true
\* and And does not when the left one is not true: no side effect and no
\* error of the right operand occurs and the result is Bool(true), resp.
\* Bool(false); otherwise the result is Bool(IsTrue(right)), a Bool and
\* never the operand.
C17_ShortCircuit ==
    [][ \A i \in ShortCircuits : done'.stmt = i /\ LeftOf(Logic[i].rv_).sig = "ok"
        => IF Decides(Logic[i].rv_, LeftOf(Logic[i].rv_).ret)
           THEN /\ done'.sig = "ok"
                /\ done'.ret = BoolHolder(Logic[i].rv_.node = "Or")
                /\ closure' = Store(closure, Logic[i].var_, done'.ret)
                /\ heap' = heap
                /\ Len(done'.log) = 2 + Len(LeftOf(Logic[i].rv_).st.log)
           ELSE /\ done'.sig = RightOf(Logic[i].rv_).sig
                /\ done'.sig = "ok"
                     => /\ done'.ret =
                             BoolHolder(IsTrue(RightOf(Logic[i].rv_).ret))
                        /\ closure'[Logic[i].var_] = done'.ret ]_vars

\* o = v or (e = 1) has run with v true: o is Bool(true) and e is not
\* bound.
C17_Witness ==
    /\ done.stmt \in ShortCircuits
    /\ Logic[done.stmt].rv_ = Or(Variable("v"),
                                 Assignment("e", NumericConst(1)))
    /\ done.sig = "ok"
    /\ IsTrue(closure["v"])
    /\ closure["o"] = BoolHolder(TRUE)
    /\ "e" \notin DOMAIN closure

\* The holders IsTrue is false on.
Falsy(h) ==
    \/ h.kind \in {"None", "Class", "ClassInstance"}
    \/ h = BoolHolder(FALSE)
    \/ h = NumberHolder(0)
    \/ h = StringHolder(<<>>)

\* The statements of Logic that apply Not and IfElse to v.
NotV ==
    CHOOSE i \in 1..Len(Logic) :
        Logic[i].node = "Assignment" /\ Logic[i].rv_.node = "Not"

IfV == CHOOSE i \in 1..Len(Logic) : Logic[i].node = "IfElse"

\* C18: IsTrue is false exactly on an empty holder, a Class, a
\* ClassInstance, Bool(false), Number(0) and String(""), and true on every
\* other Bool, Number and String; Not and IfElse decide by it.
C18_Truthiness ==
    [][ "v" \in DOMAIN closure
        => /\ IsTrue(closure["v"]) = ~Falsy(closure["v"])
           /\ done'.stmt = NotV
                => /\ done'.sig = "ok"
                   /\ closure'["n"] = BoolHolder(Falsy(closure["v"]))
           /\ done'.stmt = IfV
                => /\ done'.sig = "ok"
                   /\ closure'["b"] = NumberHolder(IF Falsy(closure["v"])
                                                   THEN 0 ELSE 1) ]_vars

\* n = not v has run on an instance: n is Bool(true).
C18_Witness ==
    /\ done.stmt = NotV
    /\ done.sig = "ok"
    /\ closure["v"].kind = "ClassInstance"
    /\ closure["n"] = BoolHolder(TRUE)

\* What the comparison cmp yields on the values of x and y.
Compared(cmp) ==
    Compare(cmp, closure["x"], closure["y"], State("stale", "left_first"))

\* The six comparisons return on the values of x and y.
AllReturn ==
    \A i \in 1..Len(Comparators) : Compared(Comparators[i]).sig = "ok"

\* x and y are two Bools, two Numbers or two Strings.
SameKind ==
    /\ closure["x"].kind = closure["y"].kind
    /\ closure["x"].kind \in {"Bool", "Number", "String"}

\* The native order of two values of the same kind.
NativeLess(a, b) ==
    IF a.kind = "String" THEN StringLess(a.str, b.str) ELSE a.num < b.num

\* The statement of Comparisons that applies the comparator i.
ComparesWith(i) == 2 * Len(Operands) + i

\* C19: where the comparisons return, Equal <=> not NotEqual,
\* LessOrEqual <=> Less or Equal, Greater <=> not LessOrEqual and
\* GreaterOrEqual <=> not Less; on two primitives of one kind the six
\* agree with the native order; a Comparison yields the Bool its function
\* returns.
C19_Coherence ==
    [][ {"x", "y"} \subseteq DOMAIN closure /\ AllReturn
        => /\ Value(Compared("Equal")) <=> ~Value(Compared("NotEqual"))
           /\ Value(Compared("LessOrEqual")) <=>
                  Value(Compared("Less")) \/ Value(Compared("Equal"))
           /\ Value(Compared("Greater")) <=> ~Value(Compared("LessOrEqual"))
           /\ Value(Compared("GreaterOrEqual")) <=> ~Value(Compared("Less"))
           /\ SameKind
                => /\ Value(Compared("Equal")) <=>
                          closure["x"] = closure["y"]
                   /\ Value(Compared("Less")) <=>
                          NativeLess(closure["x"], closure["y"])
                   /\ Value(Compared("Greater")) <=>
                          NativeLess(closure["y"], closure["x"])
                   /\ Value(Compared("LessOrEqual")) <=>
                          ~NativeLess(closure["y"], closure["x"])
                   /\ Value(Compared("GreaterOrEqual")) <=>
                          ~NativeLess(closure["x"], closure["y"])
           /\ \A i \in 1..Len(Comparators) : done'.stmt = ComparesWith(i)
                => /\ done'.sig = "ok"
                   /\ closure'["c"] = Compared(Comparators[i]).ret ]_vars

\* c = x > y has run on two instances of A, A(2) and A(1): c is Bool(true).
C19_Witness ==
    /\ done.stmt = ComparesWith(4)
    /\ done.sig = "ok"
    /\ closure["x"].kind = "ClassInstance"
    /\ closure["y"].kind = "ClassInstance"
    /\ closure["c"] = BoolHolder(TRUE)

\* x is no ClassInstance and x and y are not two Bools, two Numbers or two
\* Strings.
Mixed == closure["x"].kind # "ClassInstance" /\ ~SameKind

\* The comparison cmp raises a runtime error on the values of x and y.
Raises(cmp) == Compared(cmp).sig = "runtime_error"

\* The class of the instance x holds has no method of that name and of
\* arity 1.
Lacks(method) ==
    /\ closure["x"].kind = "ClassInstance"
    /\ ~HasMethod(heap[closure["x"].addr].cls_, method, 1)

\* C20: on operands that are not two Bools, two Numbers or two Strings and
\* whose left one is no ClassInstance, Equal returns true for two empty
\* holders and raises a runtime error otherwise; Less raises in all these
\* cases, and so do LessOrEqual, Greater and GreaterOrEqual on two empty
\* holders; a left ClassInstance without __eq__ or __lt__ of arity 1 raises
\* a runtime error.  A Comparison ends as its function does.
C20_ComparisonFailures ==
    [][ {"x", "y"} \subseteq DOMAIN closure
        => /\ Mixed
                => /\ IF closure["x"] = None /\ closure["y"] = None
                      THEN Compared("Equal") =
                               Returns(State("stale", "left_first"), TRUE)
                      ELSE /\ Raises("Equal")
                           /\ Compared("Equal").what =
                                  "Cannot compare objects for equality"
                   /\ Raises("Less")
                   /\ Compared("Less").what = "Cannot compare objects for less"
                   /\ Raises("LessOrEqual")
                   /\ Raises("Greater")
                   /\ Raises("GreaterOrEqual")
           /\ Lacks("__eq__")
                => Raises("Equal") /\ Compared("Equal").what = "Not implemented"
           /\ Lacks("__lt__")
                => Raises("Less") /\ Compared("Less").what = "Not implemented"
           /\ \A i \in 1..Len(Comparators) : done'.stmt = ComparesWith(i)
                => /\ done'.sig = Compared(Comparators[i]).sig
                   /\ done'.what = Compared(Comparators[i]).what ]_vars

\* c = x <= y has run on two empty holders and has raised the error of
\* Less.
C20_Witness ==
    /\ done.stmt = ComparesWith(5)
    /\ {"x", "y"} \subseteq DOMAIN closure
    /\ closure["x"] = None
    /\ closure["y"] = None
    /\ done.sig = "runtime_error"
    /\ done.what = "Cannot compare objects for less"

RECURSIVE Chain(_)

\* The class named cls followed by its ancestors, nearest first.
Chain(cls) ==
    IF cls = "" THEN <<>> ELSE <<cls>> \o Chain(Classes[cls].parent_ptr_)

\* The positions of the methods of that name in the method list of cls.
Named(cls, name) ==
    {i \in 1..Len(Classes[cls].methods_) :
        Classes[cls].methods_[i].name = name}

\* The first method of that name of the nearest class of the chain of cls
\* that has one, NoMethod when none has.
Nearest(cls, name) ==
    LET chain == Chain(cls)
        defining == {j \in 1..Len(chain) : Named(chain[j], name) # {}}
        nearest == chain[CHOOSE j \in defining : \A k \in defining : j <= k]
        first == CHOOSE i \in Named(nearest, name) :
                     \A k \in Named(nearest, name) : i <= k
    IN IF defining = {} THEN NoMethod ELSE Classes[nearest].methods_[first]

\* The names of the methods the programs call.
MethodNames ==
    {"__init__", "me", "get", "set", "early", "outer", "bad", "__eq__",
     "__lt__", "g", "loc", "h"}

\* The statement of Dispatch that calls method with argc arguments.
Dispatches(method, argc) ==
    CHOOSE i \in 1..Len(Dispatch) :
        /\ Dispatch[i].rv_.node = "MethodCall"
        /\ Dispatch[i].rv_.method_ = method
        /\ Len(Dispatch[i].rv_.args_) = argc

\* d holds an instance.
InstanceD == "d" \in DOMAIN closure /\ closure["d"].kind = "ClassInstance"

\* The class and the fields of the instance d holds.
ClassOfD == heap[closure["d"].addr].cls_

FieldsOfD == heap[closure["d"].addr].closure_

\* C21: GetMethod returns the first method of that name of the class
\* itself if it has one, otherwise what the parent finds, otherwise
\* nothing: a call on an instance of B runs the method of A unless B or a
\* nearer ancestor defines the name, and the first of two methods of one
\* name of one class wins.
C21_InheritanceDispatch ==
    [][ /\ InstanceD
             => \A name \in MethodNames :
                    GetMethod(ClassOfD, name) = Nearest(ClassOfD, name)
        /\ InstanceD /\ done'.stmt = Dispatches("get", 0)
             => /\ done'.sig = "ok"
                /\ closure'["r"] =
                       CASE ClassOfD = "A" -> Stored(FieldsOfD, "n")
                         [] ClassOfD = "B" -> NumericConst(5).value_
                         [] ClassOfD = "D" -> NumericConst(8).value_
                         [] ClassOfD = "C" -> None
        /\ InstanceD /\ done'.stmt = Dispatches("me", 0)
             => /\ done'.sig = "ok"
                /\ closure'["r"] = IF ClassOfD = "C" THEN None
                                   ELSE Share(closure["d"].addr) ]_vars

\* r = d.get() has run on an instance of D: r is 8, what the first get of
\* D returns.
C21_Witness ==
    /\ done.stmt = Dispatches("get", 0)
    /\ done.sig = "ok"
    /\ InstanceD
    /\ ClassOfD = "D"
    /\ closure["r"] = NumericConst(8).value_

\* The arguments ClassInstance::Call is tried with.
ArgumentLists ==
    { <<>>, <<None>>, <<NumberHolder(1), NumberHolder(2)>> }

\* The statements of Dispatch that compare d with itself.
ComparesD ==
    {i \in 1..Len(Dispatch) : Dispatch[i].rv_.node = "Comparison"}

\* The method the comparison of the statement i calls on its left operand.
MethodOf(i) == IF Dispatch[i].rv_.cmp_ = "Equal" THEN "__eq__" ELSE "__lt__"

\* C22: ClassInstance::Call raises a runtime error, executes no method body
\* and leaves the fields of the instance as they are whenever the class
\* chain has no method of that name or the method found does not take as
\* many parameters as there are arguments.
C22_CallRaises ==
    [][ InstanceD
        => /\ \A name \in MethodNames, args \in ArgumentLists :
                ~HasArity(Nearest(ClassOfD, name), Len(args))
                => ClassInstanceCall(closure["d"].addr, name, args,
                                     State("stale", "left_first"))
                   = Throw(State("stale", "left_first"), "Not implemented")
           /\ \A i \in ComparesD :
                /\ done'.stmt = i
                /\ ~HasArity(Nearest(ClassOfD, MethodOf(i)), 1)
                => /\ done'.sig = "runtime_error"
                   /\ done'.what = "Not implemented"
                   /\ heap' = heap
                   /\ closure' = closure
                   /\ \A k \in 1..Len(done'.log) :
                        done'.log[k][2] \notin {"Call", "MethodBody"} ]_vars

\* c = d == d has run on an instance of C, whose __eq__ takes no
\* parameter, and has raised.
C22_Witness ==
    /\ done.stmt \in ComparesD
    /\ MethodOf(done.stmt) = "__eq__"
    /\ InstanceD
    /\ ClassOfD = "C"
    /\ done.sig = "runtime_error"
    /\ done.what = "Not implemented"

\* The statements of Dispatch that assign the result of a MethodCall on d.
MethodCalls ==
    {i \in 1..Len(Dispatch) : Dispatch[i].rv_.node = "MethodCall"}

\* d holds an instance whose class chain has the method the MethodCall
\* call names, with as many parameters as call has arguments.
Matches(call) ==
    /\ InstanceD
    /\ HasArity(Nearest(ClassOfD, call.method_), Len(call.args_))

\* The positions of the log of the step at which a top-level statement
\* assigns k: the arguments of the calls of Dispatch do, and nothing else.
ArgumentsRun == {j \in 1..Len(done'.log) : done'.log[j] = <<0, "Assignment", "k">>}

\* The positions of the log of the step at which a method is entered from
\* the top level.
CallsRun == {j \in 1..Len(done'.log) : done'.log[j][1] = 0 /\ done'.log[j][2] = "Call"}

\* C23: when the object of a MethodCall is no ClassInstance or its class
\* chain has no method of that name with as many parameters as there are
\* arguments, MethodCall returns an empty holder, raises nothing, evaluates
\* no argument and changes no closure and no field; otherwise it evaluates
\* the arguments once each, from left to right, calls the method and
\* returns its result.
C23_PermissiveMethodCall ==
    [][ \A i \in MethodCalls : done'.stmt = i /\ "d" \in DOMAIN closure
        => IF Matches(Dispatch[i].rv_)
           THEN /\ Cardinality(ArgumentsRun) = Len(Dispatch[i].rv_.args_)
                /\ Cardinality(CallsRun) = 1
                /\ \A j \in ArgumentsRun, k \in CallsRun : j < k
                /\ \A k \in CallsRun :
                     done'.log[k][3] = Dispatch[i].rv_.method_
                /\ Dispatch[i].rv_.args_ # <<>>
                     => closure'["k"] =
                            Dispatch[i].rv_.args_[Len(Dispatch[i].rv_.args_)]
                                .rv_.value_
                /\ done'.sig = "ok" => closure'["r"] = done'.ret
                /\ ClassOfD = "D" /\ i = Dispatches("set", 2)
                     => /\ done'.ret = NumericConst(2).value_
                        /\ heap'[closure["d"].addr].closure_["n"] =
                               NumericConst(1).value_
           ELSE /\ done'.sig = "ok"
                /\ done'.ret = None
                /\ closure' = Store(closure, "r", None)
                /\ heap' = IF "r" \in DOMAIN closure
                           THEN Release(closure["r"], heap) ELSE heap
                /\ done'.log = << <<0, "Assignment", "r">>,
                                  <<0, "MethodCall", Dispatch[i].rv_.method_>>,
                                  <<0, "VariableValue", "d">> >> ]_vars

\* r = d.set(k = 3) has run on an instance of D, whose set takes two
\* parameters: r is empty and k is not bound.
C23_Witness ==
    /\ done.stmt = Dispatches("set", 1)
    /\ done.sig = "ok"
    /\ InstanceD
    /\ ClassOfD = "D"
    /\ closure["r"] = None
    /\ "k" \notin DOMAIN closure

\* The statements of Dispatch that assign a NewInstance.
NewInstances ==
    {i \in 1..Len(Dispatch) : Dispatch[i].rv_.node = "NewInstance"}

\* The class chain of the NewInstance new has an __init__ with as many
\* parameters as new has arguments.
Initialises(new) ==
    HasArity(Nearest(new.class_ref_, INIT_METHOD), Len(new.args_))

\* C24: NewInstance returns a holder that owns a newly allocated instance
\* of its class, distinct from every earlier instance, which it leaves as
\* they are; it evaluates the arguments and calls __init__ once when the
\* class chain has an __init__ with as many parameters as there are
\* arguments, and otherwise calls nothing, raises nothing, evaluates no
\* argument and leaves the instance without a user field; what __init__
\* returns is discarded.
C24_NewInstance ==
    [][ \A i \in NewInstances : done'.stmt = i
        => /\ done'.sig = "ok"
           /\ done'.ret.kind = "ClassInstance"
           /\ done'.ret.own
           /\ closure'["d"] = done'.ret
           /\ done'.ret.addr \in (Len(heap) + 1)..Len(heap')
           /\ heap'[done'.ret.addr].live
           /\ heap'[done'.ret.addr].cls_ = Dispatch[i].rv_.class_ref_
           /\ \A a \in 1..Len(heap) :
                heap'[a].live => heap'[a].closure_ = heap[a].closure_
           /\ IF Initialises(Dispatch[i].rv_)
              THEN /\ Cardinality(ArgumentsRun) = Len(Dispatch[i].rv_.args_)
                   /\ Cardinality(CallsRun) = 1
                   /\ \A j \in ArgumentsRun, k \in CallsRun : j < k
                   /\ \A k \in CallsRun : done'.log[k][3] = INIT_METHOD
                   /\ heap'[done'.ret.addr].closure_["n"] =
                          Dispatch[i].rv_.args_[1].rv_.value_
              ELSE /\ CallsRun = {}
                   /\ ArgumentsRun = {}
                   /\ closure' = Store(closure, "d", done'.ret)
                   /\ DOMAIN heap'[done'.ret.addr].closure_ = {"self"} ]_vars

\* d = D(k = 6, k = 7) has run: __init__ of D has set n to 6, the 9 it
\* returns is discarded and d holds the instance.
C24_Witness ==
    /\ done.sig = "ok"
    /\ InstanceD
    /\ ClassOfD = "D"
    /\ done.stmt \in NewInstances
    /\ Len(Dispatch[done.stmt].rv_.args_) = 2
    /\ done.ret = closure["d"]
    /\ FieldsOfD["n"] = NumericConst(6).value_
    /\ closure["k"] = NumericConst(7).value_

\* The statement of Arithmetic that assigns x <operation> y to z.
Operates(operation) ==
    CHOOSE i \in 1..Len(Arithmetic) :
        /\ Arithmetic[i].rv_.node = operation
        /\ Arithmetic[i].var_ = "z"

\* x and y hold two values of the kind T.
Both(T) == closure["x"].kind = T /\ closure["y"].kind = T

\* x holds an instance whose class chain has __add__ with one parameter.
Adds ==
    /\ closure["x"].kind = "ClassInstance"
    /\ HasArity(Nearest(heap[closure["x"].addr].cls_, "__add__"), 1)

\* The step raises the runtime error what: nothing is assigned and no
\* object is created or destroyed.
RaisesNow(what) ==
    /\ done'.sig = "runtime_error"
    /\ done'.what = what
    /\ done'.ret = None
    /\ closure' = closure
    /\ heap' = heap

\* The step assigns a Number to z; it is value where guard says that the
\* result fits an int.
NumberNow(guard, value) ==
    /\ done'.sig = "ok"
    /\ closure' = Store(closure, "z", closure'["z"])
    /\ closure'["z"].kind = "Number"
    /\ guard => closure'["z"].num = value

\* What __add__ of the instance x holds yields on y before the step.
Added ==
    ClassInstanceCall(closure["x"].addr, "__add__", <<closure["y"]>>,
                      State("stale", "left_first"))

\* The step has entered __add__ once from the top level and ends as the
\* method did: z is what it returned.
AddedNow ==
    /\ Cardinality(CallsRun) = 1
    /\ \A k \in CallsRun : done'.log[k][3] = "__add__"
    /\ done'.sig = Added.sig
    /\ done'.what = Added.what
    /\ done'.ret = Added.ret
    /\ IF done'.sig = "ok" THEN closure' = Store(closure, "z", done'.ret)
       ELSE closure' = closure

\* C25: Add returns a Number for two Numbers, the concatenated String for
\* two Strings, the result of __add__ when the left operand is a
\* ClassInstance having __add__ of arity 1, and raises a runtime error for
\* every other pair of operands, an empty one included; Sub and Mult return
\* a Number for two Numbers and raise otherwise; Div raises when the right
\* operand is not a Number, when it is Number(0) and when the left operand
\* is not a Number, and returns no value then.
C25_ArithmeticTyping ==
    [][ {"x", "y"} \subseteq DOMAIN closure
        => /\ done'.stmt = Operates("Add")
                => IF Both("Number")
                   THEN NumberNow(closure["y"].num <= IntMax - closure["x"].num,
                                  closure["x"].num + closure["y"].num)
                   ELSE IF Both("String")
                   THEN /\ done'.sig = "ok"
                        /\ closure' =
                             Store(closure, "z",
                                   StringHolder(closure["x"].str
                                                \o closure["y"].str))
                   ELSE IF Adds THEN AddedNow
                   ELSE RaisesNow("Arguments are not executable!")
           /\ done'.stmt = Operates("Sub")
                => IF Both("Number")
                   THEN NumberNow(TRUE, closure["x"].num - closure["y"].num)
                   ELSE RaisesNow("Arguments are not executable!")
           /\ done'.stmt = Operates("Mult")
                => IF Both("Number")
                   THEN NumberNow(\/ closure["x"].num = 0
                                  \/ closure["y"].num
                                       <= IntMax \div closure["x"].num,
                                  closure["x"].num * closure["y"].num)
                   ELSE RaisesNow("Arguments are not executable!")
           /\ done'.stmt = Operates("Div")
                => IF closure["y"].kind # "Number"
                   THEN RaisesNow("Divisor is not defined!")
                   ELSE IF closure["y"].num = 0
                   THEN RaisesNow("Division by zero!")
                   ELSE IF closure["x"].kind # "Number"
                   THEN RaisesNow("Argument (dividend) is not executable!")
                   ELSE NumberNow(TRUE,
                                  closure["x"].num \div closure["y"].num)
      ]_vars

\* z = x + y has run on two instances of A whose n is 3: __add__ of A has
\* returned Number(6), which z holds.
C25_Witness ==
    /\ done.stmt = Operates("Add")
    /\ done.sig = "ok"
    /\ {"x", "y", "z"} \subseteq DOMAIN closure
    /\ closure["x"].kind = "ClassInstance"
    /\ closure["y"].kind = "ClassInstance"
    /\ \E k \in 1..Len(done.log) : done.log[k] = <<0, "Call", "__add__">>
    /\ closure["z"] = NumberHolder(6)

\* The numbers of parameters of the definitions of name along the class
\* chain of cls.
Arities(cls, name) ==
    UNION { {Len(Classes[Chain(cls)[j]].methods_[i].formal_params) :
                i \in Named(Chain(cls)[j], name)} :
            j \in 1..Len(Chain(cls)) }

\* An ancestor of cls defines name with argc parameters and the nearest
\* definition of name takes another number of them.
Shadowed(cls, name, argc) ==
    /\ argc \in Arities(cls, name)
    /\ Len(Nearest(cls, name).formal_params) # argc

\* C26: HasMethod(name, argc) is true iff the nearest definition of name in
\* the class chain, the one GetMethod finds, has exactly argc formal
\* parameters; a method of an ancestor with argc parameters is not found
\* when a nearer class defines name with another number of parameters:
\* MethodCall then returns an empty holder and NewInstance skips __init__.
C26_HasMethodArity ==
    [][ /\ \A i \in NewInstances : done'.stmt = i
              => \A name \in MethodNames, args \in ArgumentLists :
                    HasMethod(Dispatch[i].rv_.class_ref_, name, Len(args))
                    <=> /\ Arities(Dispatch[i].rv_.class_ref_, name) # {}
                        /\ Len(Nearest(Dispatch[i].rv_.class_ref_, name)
                                   .formal_params) = Len(args)
        /\ \A i \in MethodCalls :
              /\ done'.stmt = i
              /\ InstanceD
              /\ Shadowed(ClassOfD, Dispatch[i].rv_.method_,
                          Len(Dispatch[i].rv_.args_))
              => /\ done'.sig = "ok"
                 /\ done'.ret = None
                 /\ done'.log = <<>> \/ CallsRun = {}
                 /\ closure' = Store(closure, "r", None)
                 /\ heap' = heap
        /\ \A i \in NewInstances :
              /\ done'.stmt = i
              /\ Shadowed(Dispatch[i].rv_.class_ref_, INIT_METHOD,
                          Len(Dispatch[i].rv_.args_))
              => /\ done'.sig = "ok"
                 /\ CallsRun = {}
                 /\ heap'[done'.ret.addr].cls_ = Dispatch[i].rv_.class_ref_
                 /\ DOMAIN heap'[done'.ret.addr].closure_ = {"self"} ]_vars

\* d = D(k = 8) has run: __init__ of D takes two parameters and hides the
\* __init__ of A, which takes one, so d holds an instance without the
\* field n.
C26_Witness ==
    /\ done.stmt \in NewInstances
    /\ Len(Dispatch[done.stmt].rv_.args_) = 1
    /\ Shadowed(Dispatch[done.stmt].rv_.class_ref_, INIT_METHOD, 1)
    /\ done.sig = "ok"
    /\ InstanceD
    /\ done.ret = closure["d"]
    /\ ClassOfD = "D"
    /\ DOMAIN FieldsOfD = {"self"}

\* The current token is Eof.
AtEof ==
    /\ pc = "ready"
    /\ TokenAt(tokens_, current_token_index_).type = "Eof"

\* The last call was a NextToken that returned Eof.
ReturnedEof ==
    /\ last.op = "NextToken"
    /\ last.result = "ok"
    /\ last.ret.type = "Eof"

\* C27: once NextToken has returned Eof the current token is Eof, and from
\* then on every NextToken and CurrentToken returns Eof, the token buffer
\* is not extended and the current index does not move; before that, and
\* ever, the current index does not exceed the last position of the buffer.
C27_EofIsSticky ==
    /\ [](pc = "ready" => current_token_index_ < Len(tokens_))
    /\ [](ReturnedEof => AtEof /\ current_token_index_ = Len(tokens_) - 1)
    /\ [][ AtEof
           => /\ pc' = "ready"
              /\ tokens_' = tokens_
              /\ current_token_index_' = current_token_index_
              /\ last' # last
                   => /\ last'.op \in {"NextToken", "CurrentToken"}
                      /\ last'.result = "ok"
                      /\ last'.ret = Eof ]_vars

\* Eof was reached by NextToken calls and a CurrentToken made after them
\* has returned Eof, with the index on the last token of the buffer.
C27_Witness ==
    /\ AtEof
    /\ current_token_index_ >= 2
    /\ current_token_index_ = Len(tokens_) - 1
    /\ last.op = "CurrentToken"
    /\ last.ret = Eof

\* The step is a call that returns: of the constructor, of CurrentToken or
\* of NextToken.
HasReturned(op) == last' # last /\ last'.op = op /\ last'.result = "ok"

\* C28: the token buffer is append-only and is consumed in order: the
\* constructor leaves the index on the first token, CurrentToken returns
\* the token at the index and moves nothing, and every NextToken returns
\* the token after the one returned before, until that one is Eof; no
\* token is skipped or returned twice, also when one load has appended
\* several tokens.
C28_ConsumedInOrder ==
    [][ /\ AppendsOnly
        /\ HasReturned("Lexer")
             => current_token_index_' = 0 /\ Len(tokens_') >= 1
        /\ HasReturned("CurrentToken")
             => /\ last'.ret = tokens_[current_token_index_ + 1]
                /\ tokens_' = tokens_
                /\ current_token_index_' = current_token_index_
        /\ HasReturned("NextToken")
             => /\ last'.ret = tokens_'[current_token_index_' + 1]
                /\ IF tokens_[current_token_index_ + 1].type = "Eof"
                   THEN current_token_index_' = current_token_index_
                   ELSE /\ current_token_index_' = current_token_index_ + 1
                        /\ current_token_index_' < Len(tokens_')
                        /\ Len(tokens_) > current_token_index_'
                             => last'.ret = tokens_[current_token_index_' + 1]
      ]_vars

\* A load has appended two Dedents after a Newline and two later calls of
\* NextToken have returned them one after the other: the index is on the
\* second, which the last call returned.
C28_Witness ==
    /\ pc = "ready"
    /\ last.op = "NextToken"
    /\ current_token_index_ >= 2
    /\ tokens_[current_token_index_ - 1].type = "Newline"
    /\ tokens_[current_token_index_].type = "Dedent"
    /\ tokens_[current_token_index_ + 1].type = "Dedent"
    /\ last.ret = tokens_[current_token_index_ + 1]

\* C29: evaluating a VariableValue is a pure read: whether it returns a
\* value or raises, it leaves the closure and the fields of every instance
\* as they are; reading a field that was never assigned does not add the
\* field to the instance.
C29_PureRead ==
    [][ done'.stmt \in Reads
        => /\ closure' = closure
           /\ Len(heap') = Len(heap)
           /\ \A a \in 1..Len(heap) :
                heap'[a].closure_ = heap[a].closure_ ]_vars

\* The holders the arguments of the MethodCall call yield: the arguments
\* of Dispatch assign a number to k.
ArgumentsOf(call) ==
    [i \in 1..Len(call.args_) |-> NumberHolder(call.args_[i].rv_.value_.num)]

\* The local_closure ClassInstance::Call builds for the MethodCall call on
\* the instance d holds.
LocalClosure(call) ==
    BindArgs(Nearest(ClassOfD, call.method_).formal_params, ArgumentsOf(call),
             1, "self" :> Share(closure["d"].addr),
             State("stale", "left_first")).local_closure

\* The closure of a method with these formal parameters called on the
\* object at this with the arguments args: self and the parameters.
Fresh(this, formal_params, args) ==
    [name \in {"self"} \cup {formal_params[i] : i \in 1..Len(formal_params)}
       |-> IF name = "self" THEN Share(this)
           ELSE args[CHOOSE i \in 1..Len(formal_params) :
                         formal_params[i] = name]]

\* C30: ClassInstance::Call executes the body against a fresh closure that
\* holds exactly self, bound to the receiving instance, and the formal
\* parameters, bound positionally to the arguments; the body cannot read a
\* variable of the caller: reading one raises "No variable!"; an Assignment
\* to a plain variable in the body changes neither the closure of the
\* caller nor the fields of the instance.
C30_MethodScope ==
    [][ \A i \in MethodCalls :
          done'.stmt = i /\ Matches(Dispatch[i].rv_)
          => /\ LocalClosure(Dispatch[i].rv_) =
                    Fresh(closure["d"].addr,
                          Nearest(ClassOfD, Dispatch[i].rv_.method_)
                              .formal_params,
                          ArgumentsOf(Dispatch[i].rv_))
             /\ i = Dispatches("me", 0)
                  => /\ done'.sig = "ok"
                     /\ closure'["r"] = Share(closure["d"].addr)
             /\ i = Dispatches("set", 2)
                  => /\ done'.sig = "ok"
                     /\ heap'[closure["d"].addr].closure_["n"] =
                            ArgumentsOf(Dispatch[i].rv_)[1]
                     /\ closure'["r"] = ArgumentsOf(Dispatch[i].rv_)[2]
             /\ i = Dispatches("bad", 0)
                  => /\ done'.sig = "runtime_error"
                     /\ done'.what = "No variable!"
                     /\ closure' = closure
             /\ i = Dispatches("loc", 0)
                  => /\ done'.sig = "ok"
                     /\ closure' = Store(closure, "r", closure'["r"])
                     /\ closure'["r"] = NumberHolder(2)
                     /\ heap'[closure["d"].addr].closure_ = FieldsOfD
      ]_vars

\* r = d.loc() has run on an instance of D while zz is 1 at the top level:
\* the method has assigned 2 to its own zz and returned it; zz is still 1
\* and is no field of the instance.
C30_Witness ==
    /\ done.stmt = Dispatches("loc", 0)
    /\ done.sig = "ok"
    /\ InstanceD
    /\ ClassOfD = "D"
    /\ {"zz", "r"} \subseteq DOMAIN closure
    /\ closure["zz"] = NumberHolder(1)
    /\ closure["r"] = NumberHolder(2)
    /\ "zz" \notin DOMAIN FieldsOfD

=============================================================================
